---- MODULE Spec2Model ----
(***************************************************************************)
(* ChartGPU worker bridge.                                                 *)
(*                                                                         *)
(* Spec      : the worker-side ChartGPUWorkerController: the registry of   *)
(*             chart instances, their state flags, the render channel and  *)
(*             the GPU device-loss listeners.                              *)
(* ProxySpec : the main-thread ChartGPUWorkerProxy: its disposed flag, the *)
(*             pending-request map with its timers, and the messages it    *)
(*             posts to the worker.                                        *)
(***************************************************************************)
EXTENDS Integers, Sequences, FiniteSets, TLC

(* ------------------------------ bounds -------------------------------- *)

\* Coalescable messages (setOption/appendData/appendDataBatch/resize) counted
\* per render window.
MaxBatch == 2

\* Message ids of init requests are 1..MaxMsgId.
MaxMsgId == 2

\* device.limits.maxTextureDimension2D of the model's GPU device.
MaxTextureDim == 6

\* performance.now() runs over 0..MaxTime.
MaxTime == 3

\* requestAnimationFrame is called at most MaxRaf times.
MaxRaf == 4

\* Options have at most MaxSeries series.
MaxSeries == 2

\* createChartInWorker is called at most MaxCalls times.
MaxCalls == 2

\* A prepare() of the heatmap renderer has at most MaxCells finite cells.
MaxCells == 4

\* serializeDataPoints is given at most MaxPoints points.
MaxPoints == 3

\* A category domain has at most MaxCategories entries.
MaxCategories == 3

\* At most MaxEvents pointer events occur on the canvas.
MaxEvents == 3

ChartIds == {"a", "b"}
MsgIds == 1..MaxMsgId
NoId == 0

(* ---------------------------- variables ------------------------------- *)

VARIABLES
  registered,   \* registered[c]: this.charts.has(c)
  st,           \* st[c]: ChartInstanceState of the latest instance made for c
  chanOpen,     \* chanOpen[c]: the instance's renderChannel ports are open
  transit,      \* transit[c]: pings posted on the render channel, not yet delivered
  parked,       \* parked[c]: pings delivered to a port that has no onmessage handler
  gpu,          \* gpu[c]: device of the registered instance: "none" | "ok" | "lost"
  stray,        \* stray[c]: device of an unregistered instance: "none" | "leaked" | "destroyed"
  initAwait,    \* initAwait[c]: messageIds of init handlers awaiting initializeGPUContext
  canvas,       \* canvas[c]: <<width, height>> of the OffscreenCanvas
  win,          \* win[c]: the current render window (messages handled, renders made)
  lastEvent,    \* the event the last step handled
  emitted,      \* outbound messages emitted by the last step, in order
  calls         \* coordinator methods the last step invoked on lastEvent.chartId, in order

wvars == <<registered, st, chanOpen, transit, parked, gpu, stray, initAwait,
           canvas, win, lastEvent, emitted, calls>>

VARIABLES
  isDisposed,       \* ChartGPUWorkerProxy.isDisposed
  pendingRequests,  \* keys of the pendingRequests map (messageIds)
  timers,           \* messageIds whose setTimeout is armed
  outcome,          \* outcome[m]: how the promise of request m stands
  settleCalls,      \* settleCalls[m]: resolve/reject invocations on request m
  messageIdCounter, \* the counter of generateMessageId
  inFlight,         \* init messageIds posted to the worker and not yet answered
  listening,        \* the worker 'message' listener is attached
  canvasCount,      \* canvases of the proxy in its container
  canvasListeners,  \* pointer / wheel listeners are attached to the canvas
  overlays,         \* the DOM overlays exist
  initPosted,       \* an init message has reached the worker
  lastCall,         \* the API call or event of the last step, and its result
  posted,           \* messages the last step posted to the worker, in order
  readySeen,        \* a `ready` message has been received
  monitoring,       \* the ResizeObserver and the DPR media-query listener are set up
  lastSize,         \* lastWidth / lastHeight of the ResizeObserver callback
  pendingResize,    \* ChartGPUWorkerProxy.pendingResize (NoSize: null)
  resizeRafId,      \* ChartGPUWorkerProxy.resizeRafId !== null
  currentDpr,       \* ChartGPUWorkerProxy.currentDpr
  autoResizes,      \* resize messages posted by the monitors in the current frame
  pendingMoveEvent, \* ChartGPUWorkerProxy.pendingMoveEvent: the number of the stored
                    \* pointermove in `occurred` (NoMove: null)
  moveThrottleRafId \* ChartGPUWorkerProxy.moveThrottleRafId !== null

moveVars == <<pendingMoveEvent, moveThrottleRafId>>

VARIABLES
  cachedZoomRange,  \* ChartGPUWorkerProxy.cachedZoomRange: <<start, end>> (NoRange: null)
  zoomState,        \* the range of ChartGPUWorkerProxy.zoomState (NoRange: null)
  sliderOption,     \* cachedOptions.dataZoom has an entry of type 'slider'
  cachedInteractionX \* ChartGPUWorkerProxy.cachedInteractionX (NullX: null)

syncVars == <<cachedZoomRange, zoomState, sliderOption, cachedInteractionX>>

resizeVars == <<monitoring, lastSize, pendingResize, resizeRafId, currentDpr, autoResizes>>

pvars == <<isDisposed, pendingRequests, timers, outcome, settleCalls,
           messageIdCounter, inFlight, listening, canvasCount, canvasListeners,
           overlays, initPosted, lastCall, posted, readySeen, resizeVars, moveVars,
           syncVars>>

\* RenderScheduler: its fields, performance.now(), the number of
\* requestAnimationFrame calls and of render callbacks made, and what the last
\* frame did.
VARIABLES rafId, isRunning, lastFrameTime, dirty, now, rafCount, frameCalls, lastFrame

\* The browser's list of pending animation frame callbacks, each <<id, loop>>:
\* the id requestAnimationFrame returned and the start() call whose frameHandler
\* it will run; and the number of start() calls that have started a loop.
VARIABLES pendingFrames, currentLoop

svars == <<rafId, isRunning, lastFrameTime, dirty, now, rafCount, frameCalls, lastFrame,
           pendingFrames, currentLoop>>

\* resolveOptions: the user's options and what resolveOptions returned for them
\* (<<>> before the call).
VARIABLES userOptions, resolved

ovars == <<userOptions, resolved>>

\* createChartInWorker: for each call its progress, its workerOrUrl argument,
\* its locals worker / workerCreated and whether the returned proxy has been
\* disposed; and for each Worker whether terminate() has been called on it.
VARIABLES factory, terminated

fvars == <<factory, terminated>>

\* createHeatmapRenderer: instanceBuffer, instanceCount, disposed, the length of
\* the CPU staging array in floats, the number of createBuffer calls, the most
\* bytes writeBuffer has written to the current buffer, and what the last
\* prepare() did.
VARIABLES instanceBuffer, instanceCount, heatmapDisposed, stagingFloats,
          buffersCreated, written, lastPrepare

hvars == <<instanceBuffer, instanceCount, heatmapDisposed, stagingFloats,
           buffersCreated, written, lastPrepare>>

\* The canvas of the proxy: the kinds of the pointer events that its listeners
\* have been called with, in order, and the numbers (positions in `occurred`) of
\* the events the proxy has forwarded to the worker, in order.
VARIABLES occurred, forwarded

evars == <<occurred, forwarded>>

\* serializeDataPoints / deserializeDataPoints: the points handed to
\* serializeDataPoints, and what deserializeDataPoints made of its result
\* (NotDecoded before the call).
VARIABLES points, decoded

dvars == <<points, decoded>>

\* createCategoryScale: its closure variables categories, indexByCategory and
\* <<rangeMin, rangeMax>>, and how the last call ended ("ok", "threw").
VARIABLES categories, indexByCategory, scaleRange, domainResult

kvars == <<categories, indexByCategory, scaleRange, domainResult>>

\* The components beside the worker bridge.
cvars == <<svars, ovars, fvars, hvars, evars, dvars, kvars>>

vars == <<wvars, pvars, cvars>>

(* ------------------------- outbound messages -------------------------- *)

\* x = null of setInteractionX and of the crosshair callbacks.
NullX == -1

\* source = undefined of setInteractionX and of a crosshairMove message.
NoSource == "-"

\* A WorkerOutboundMessage: its type and chartId, and the fields of the
\* error / ready / deviceLost / disposed messages ("-" and 0 where absent).
OutMsg(type, c, code, op, mid, reason, cleanup) ==
  [type |-> type, chartId |-> c, code |-> code, operation |-> op,
   messageId |-> mid, reason |-> reason, cleanupErrors |-> cleanup,
   x |-> NullX, source |-> NoSource]

\* An error emitted by the catch of handleMessage instead of the handler's own.
ErrorMsgFromOuterCatch(c, code, op, mid) ==
  OutMsg("error", c, "UNKNOWN", "handleMessage", NoId, "-", 0)

ErrorMsg(c, code, op, mid) == OutMsg("error", c, code, op, mid, "-", 0)
ReadyMsg(c, mid) == OutMsg("ready", c, "-", "-", mid, "-", 0)
DisposedMsg(c, n) == OutMsg("disposed", c, "-", "-", NoId, "-", n)
DeviceLostMsg(c, reason) == OutMsg("deviceLost", c, "-", "-", NoId, reason, 0)

\* The message onCrosshairMove emits: type, chartId and x, and no source.
CrosshairMoveMsg(c, x) ==
  [OutMsg("crosshairMove", c, "-", "-", NoId, "-", 0) EXCEPT !.x = x]

\* An event a step handles: its kind, its chart, and its input: the data items of
\* an appendData / appendDataBatch message, for a setOption whether
\* coordinator.setOptions throws, for a dispose which of the three cleanup steps
\* throw (<<>> for the others).
InputEvent(kind, c, input) == [kind |-> kind, chartId |-> c, input |-> input]

Event(kind, c) == InputEvent(kind, c, <<>>)

NoEvent == Event("none", "-")

FreshState == [renderPending |-> FALSE, disposed |-> FALSE, deviceLost |-> FALSE]
FreshWin == [msgs |-> 0, renders |-> 0, ticked |-> FALSE, requested |-> FALSE]
InitialCanvas == <<1, 1>>

(* --------------------------- render channel --------------------------- *)

\* The port onRequestRender posts the ping on (renderChannel.port1.postMessage).
PostPort == 1

\* The port that carries the render handler (renderChannel.port1.onmessage = ...).
HandlerPort == 1

\* A MessageChannel delivers what is posted on one port to the other port.
Opposite(p) == 3 - p

\* The ping reaches the render handler iff the handler sits on the receiving port.
PingReachesHandler == Opposite(PostPort) = HandlerPort

\* onRequestRender: the guard of the callback.
RequestAccepted(s) == ~s.renderPending /\ ~s.disposed

\* onRequestRender: the state after the callback ran.
AfterRequest(s) ==
  IF RequestAccepted(s) THEN [s EXCEPT !.renderPending = TRUE] ELSE s

\* renderChannel.port1.onmessage: does the handler call coordinator.render()?
HandlerRenders(s) == ~s.disposed /\ ~s.deviceLost

\* renderChannel.port1.onmessage: the state after the handler ran.
AfterHandler(s) ==
  IF HandlerRenders(s) \/ s.deviceLost
    THEN [s EXCEPT !.renderPending = FALSE]
    ELSE s

(* ----------------------------- registry ------------------------------- *)

\* getChartInstance without the deviceLost check.
GetChartInstanceIgnoringLoss(c) ==
  IF ~registered[c] THEN "not_found"
  ELSE IF st[c].disposed THEN "disposed"
  ELSE "ok"

\* getChartInstance that only looks the chart up.
GetChartInstanceRegisteredOnly(c) ==
  IF ~registered[c] THEN "not_found" ELSE "ok"

\* getChartInstance: "ok", or why it throws.
GetChartInstance(c) ==
  IF ~registered[c] THEN "not_found"
  ELSE IF st[c].disposed THEN "disposed"
  ELSE IF st[c].deviceLost THEN "device_lost"
  ELSE "ok"

(* --------------------------- render windows --------------------------- *)

\* A render window holds the coalescable messages handled since the last run of
\* the render handler, and the coordinator.render() calls made for them.
CanCount(w) == w.ticked \/ w.msgs < MaxBatch

Counted(w, rendersNow) ==
  LET base == IF w.ticked THEN [FreshWin EXCEPT !.requested = w.requested] ELSE w
  IN  [base EXCEPT !.msgs = @ + 1,
                   !.renders = @ + (IF rendersNow THEN 1 ELSE 0)]

Ticked(w, rendered) ==
  [w EXCEPT !.renders = @ + (IF rendered THEN 1 ELSE 0), !.ticked = TRUE,
            !.requested = FALSE]

\* onRequestRender was called since the last run of the render handler.
Requested(w) == [w EXCEPT !.requested = TRUE]

(* ------------------------------- Init --------------------------------- *)

WInit ==
  /\ registered = [c \in ChartIds |-> FALSE]
  /\ st = [c \in ChartIds |-> FreshState]
  /\ chanOpen = [c \in ChartIds |-> FALSE]
  /\ transit = [c \in ChartIds |-> 0]
  /\ parked = [c \in ChartIds |-> 0]
  /\ gpu = [c \in ChartIds |-> "none"]
  /\ stray = [c \in ChartIds |-> "none"]
  /\ initAwait = [c \in ChartIds |-> {}]
  /\ canvas = [c \in ChartIds |-> InitialCanvas]
  /\ win = [c \in ChartIds |-> FreshWin]
  /\ lastEvent = NoEvent
  /\ emitted = <<>>
  /\ calls = <<>>

(* ------------------------- message handlers --------------------------- *)

\* The common shape of a handler that works on a registered instance: what it
\* emits, which coordinator methods it invokes, whether the coordinator calls
\* onRequestRender, and whether the message counts in the render window.
HandledInput(c, kind, input, out, cs, requests, counted, rendersNow) ==
  /\ lastEvent' = InputEvent(kind, c, input)
  /\ emitted' = out
  /\ calls' = cs
  /\ st' = IF requests THEN [st EXCEPT ![c] = AfterRequest(@)] ELSE st
  /\ transit' = IF requests /\ RequestAccepted(st[c]) /\ chanOpen[c]
                  THEN [transit EXCEPT ![c] = @ + 1]
                  ELSE transit
  /\ counted => CanCount(win[c])
  /\ win' = LET w == IF counted THEN Counted(win[c], rendersNow) ELSE win[c]
             IN  [win EXCEPT ![c] = IF requests THEN Requested(w) ELSE w]
  /\ UNCHANGED <<registered, chanOpen, parked, gpu, stray, initAwait>>
  /\ UNCHANGED <<pvars, cvars>>

Handled(c, kind, out, cs, requests, counted, rendersNow) ==
  HandledInput(c, kind, <<>>, out, cs, requests, counted, rendersNow)

\* handleSetOption
HandleSetOption(c, throws) ==
  LET ok == GetChartInstance(c) = "ok"
      done == ok /\ ~throws
  IN  /\ HandledInput(c, "setOption", <<throws>>,
                 IF done THEN <<>> ELSE <<ErrorMsg(c, "UNKNOWN", "setOption", NoId)>>,
                 IF ok THEN <<"setOptions">> ELSE <<>>,
                 done, done, FALSE)
      /\ UNCHANGED canvas

\* validateSeriesIndex (integers only: the model sends no fractional index)
ValidateSeriesIndex(seriesIndex) == seriesIndex >= 0

\* validatePointCount
ValidatePointCount(pointCount) == pointCount >= 0

\* deserializeDataPoints without the buffer size check.
DeserializeAnySize(item) == item.stride \in {16, 40}

\* deserializeDataPoints: TRUE iff it returns points (it throws otherwise)
DeserializeOk(item) ==
  /\ item.byteLength = item.pointCount * item.stride
  /\ item.stride \in {16, 40}

AppendItem(si, pc, bytes, stride) ==
  [seriesIndex |-> si, pointCount |-> pc, byteLength |-> bytes, stride |-> stride]

\* Sample appendData payloads: two [x, y] points, one OHLC tuple, a negative
\* series index, a negative point count, a short buffer, an unsupported stride.
ValidXY == AppendItem(0, 2, 32, 16)
ValidOHLC == AppendItem(1, 1, 40, 40)
BadSeries == AppendItem(-1, 1, 16, 16)
BadCount == AppendItem(0, -1, 16, 16)
BadSize == AppendItem(0, 2, 16, 16)
BadStride == AppendItem(0, 2, 16, 8)

Items == {ValidXY, ValidOHLC, BadSeries, BadCount, BadSize, BadStride}
BatchItems == {ValidXY, BadSeries, BadSize}

\* handleAppendData
HandleAppendData(c, item, throws) ==
  LET ok == /\ ValidateSeriesIndex(item.seriesIndex)
            /\ ValidatePointCount(item.pointCount)
            /\ GetChartInstance(c) = "ok"
            /\ DeserializeOk(item)
      done == ok /\ ~throws
  IN  /\ HandledInput(c, "appendData", <<item>>,
                 IF done THEN <<>> ELSE <<ErrorMsg(c, "DATA_ERROR", "appendData", NoId)>>,
                 IF ok THEN <<"appendData">> ELSE <<>>,
                 done, done, FALSE)
      /\ UNCHANGED canvas

\* handleAppendDataBatch: the index of the first item deserializeDataPoints
\* rejects (Len + 1 when there is none).
FirstBad(items) ==
  LET bad == {i \in 1..Len(items) : ~DeserializeOk(items[i])}
  IN  IF bad = {} THEN Len(items) + 1
      ELSE CHOOSE i \in bad : \A j \in bad : i <= j

\* handleAppendDataBatch. throwsAt = k > 0: the k-th coordinator.appendData throws.
HandleAppendDataBatch(c, items, throwsAt) ==
  LET prevalid == \A i \in 1..Len(items) :
                    /\ ValidateSeriesIndex(items[i].seriesIndex)
                    /\ ValidatePointCount(items[i].pointCount)
      entered == GetChartInstance(c) = "ok" /\ prevalid
      reach == FirstBad(items) - 1
      thrown == entered /\ throwsAt >= 1 /\ throwsAt <= reach
      invoked == IF ~entered THEN 0 ELSE IF thrown THEN throwsAt ELSE reach
      completed == IF thrown THEN invoked - 1 ELSE invoked
      done == entered /\ ~thrown /\ reach = Len(items)
  IN  /\ HandledInput(c, "appendDataBatch", items,
                 IF done THEN <<>>
                 ELSE <<ErrorMsg(c, "DATA_ERROR", "appendDataBatch", NoId)>>,
                 [i \in 1..invoked |-> "appendData"],
                 completed >= 1, done /\ completed >= 1, FALSE)
      /\ UNCHANGED canvas

\* A devicePixelRatio is a multiple of 1/DprDen: dpr = n / DprDen.
DprDen == 2

Min(a, b) == IF a < b THEN a ELSE b
Max(a, b) == IF a > b THEN a ELSE b

\* handleResize: Math.floor(size * devicePixelRatio)
TargetDim(size, dprN) == (size * dprN) \div DprDen

\* handleResize: Math.max(1, Math.min(target, maxDim))
FinalDim(target) == Max(1, Min(target, MaxTextureDim))

\* handleResize: TRUE iff the message passes every check made before the canvas
\* is written.
ResizeValid(c, w, h, dprN) ==
  /\ GetChartInstance(c) = "ok"
  /\ ~st[c].deviceLost
  /\ w > 0 /\ h > 0
  /\ dprN > 0
  /\ TargetDim(w, dprN) # 0 /\ TargetDim(h, dprN) # 0

\* handleResize. fail: "none", or the step that throws after the canvas is
\* written: canvasContext.configure ("configure") or coordinator.render ("render").
HandleResize(c, w, h, dprN, requestRender, fail) ==
  LET valid == ResizeValid(c, w, h, dprN)
      configured == valid /\ fail # "configure"
      renders == configured /\ requestRender
      done == configured /\ ~(renders /\ fail = "render")
  IN  /\ Handled(c, "resize",
                 IF done THEN <<>> ELSE <<ErrorMsg(c, "RENDER_ERROR", "resize", NoId)>>,
                 IF renders THEN <<"render">> ELSE <<>>,
                 FALSE, done /\ requestRender, renders)
      /\ canvas' = IF valid
                     THEN [canvas EXCEPT ![c] = <<FinalDim(TargetDim(w, dprN)),
                                                  FinalDim(TargetDim(h, dprN))>>]
                     ELSE canvas

\* handlePointerEvent. requests: the coordinator asks for a render.
HandlePointerEvent(c, requests, throws) ==
  LET ok == GetChartInstance(c) = "ok"
      done == ok /\ ~throws
  IN  /\ Handled(c, "forwardPointerEvent",
                 IF done THEN <<>>
                 ELSE <<ErrorMsg(c, "UNKNOWN", "forwardPointerEvent", NoId)>>,
                 IF ok THEN <<"handlePointerEvent">> ELSE <<>>,
                 done /\ requests, FALSE, FALSE)
      /\ UNCHANGED canvas

\* handleSetZoomRange: the range check made before the chart is looked up.
ZoomRangeValid(start, end) ==
  /\ ~(start < 0 \/ start > 1 \/ end < 0 \/ end > 1)
  /\ ~(start >= end)

\* handleSetZoomRange
HandleSetZoomRange(c, start, end, requests, throws) ==
  LET ok == ZoomRangeValid(start, end) /\ GetChartInstance(c) = "ok"
      done == ok /\ ~throws
  IN  /\ Handled(c, "setZoomRange",
                 IF done THEN <<>> ELSE <<ErrorMsg(c, "UNKNOWN", "setZoomRange", NoId)>>,
                 IF ok THEN <<"setZoomRange">> ELSE <<>>,
                 done /\ requests, FALSE, FALSE)
      /\ UNCHANGED canvas

\* The onCrosshairMove callback given to the coordinator: it receives x only
\* and emits for a non-null x.
OnCrosshairMove(c, x) == IF x # NullX THEN <<CrosshairMoveMsg(c, x)>> ELSE <<>>

\* handleSetInteractionX: coordinator.setInteractionX(x, source), during which
\* the coordinator invokes onCrosshairMove (fires) or not.
HandleSetInteractionX(c, x, source, fires, requests, throws) ==
  LET ok == GetChartInstance(c) = "ok"
      done == ok /\ ~throws
  IN  /\ HandledInput(c, "setInteractionX", <<x, source, fires>>,
                 IF done
                   THEN IF fires THEN OnCrosshairMove(c, x) ELSE <<>>
                   ELSE <<ErrorMsg(c, "UNKNOWN", "setInteractionX", NoId)>>,
                 IF ok THEN <<"setInteractionX">> ELSE <<>>,
                 done /\ requests, FALSE, FALSE)
      /\ UNCHANGED canvas

\* handleSetAnimation
HandleSetAnimation(c, enabled, throws) ==
  LET ok == GetChartInstance(c) = "ok"
      renders == ok /\ enabled
      done == ok /\ ~(renders /\ throws)
  IN  /\ Handled(c, "setAnimation",
                 IF done THEN <<>> ELSE <<ErrorMsg(c, "UNKNOWN", "setAnimation", NoId)>>,
                 IF renders THEN <<"render">> ELSE <<>>,
                 FALSE, FALSE, FALSE)
      /\ UNCHANGED canvas

\* A cleanup step that throws without its error being collected.
CountNone(b) == 0

\* cleanupErrors.push of a cleanup step: 1 if the step throws.
Count(b) == IF b THEN 1 ELSE 0

\* disposeChart without its two early returns.
DisposeNeverRefused(c) == FALSE

\* The early returns of disposeChart: charts.get(chartId) is undefined, or the
\* instance's state.disposed is set.
DisposeRefused(c) == ~registered[c] \/ st[c].disposed

\* disposeChart. failsClose / failsCoord / failsGpu: the cleanup step throws.
DisposeChart(c, failsClose, failsCoord, failsGpu) ==
  /\ lastEvent' = InputEvent("dispose", c, <<failsClose, failsCoord, failsGpu>>)
  /\ IF DisposeRefused(c)
       THEN /\ emitted' = <<ErrorMsg(c, "UNKNOWN", "dispose", NoId)>>
            /\ calls' = <<>>
            /\ UNCHANGED <<registered, st, chanOpen, transit, parked, gpu, stray, win>>
       ELSE /\ st' = [st EXCEPT ![c].disposed = TRUE]
            /\ chanOpen' = [chanOpen EXCEPT ![c] = IF failsClose THEN @ ELSE FALSE]
            /\ transit' = [transit EXCEPT ![c] = IF failsClose THEN @ ELSE 0]
            /\ parked' = [parked EXCEPT ![c] = IF failsClose THEN @ ELSE 0]
            /\ calls' = <<"dispose">>
            /\ gpu' = [gpu EXCEPT ![c] = "none"]
            /\ stray' = [stray EXCEPT ![c] =
                           IF gpu[c] = "ok"
                             THEN (IF failsGpu THEN "leaked" ELSE "destroyed")
                             ELSE @]
            /\ registered' = [registered EXCEPT ![c] = FALSE]
            /\ emitted' = <<DisposedMsg(c, Count(failsClose) + Count(failsCoord)
                                            + Count(failsGpu))>>
            /\ win' = [win EXCEPT ![c] = FreshWin]
  /\ UNCHANGED <<initAwait, canvas>>
  /\ UNCHANGED <<pvars, cvars>>

\* initChart up to `await initializeGPUContext(gpuContext)`.
InitStart(c, mid, dprN) ==
  /\ mid \notin initAwait[c]
  /\ lastEvent' = Event("init", c)
  /\ calls' = <<>>
  /\ IF registered[c] \/ dprN <= 0
       THEN /\ emitted' = <<ErrorMsg(c, "UNKNOWN", "init", mid)>>
            /\ UNCHANGED initAwait
       ELSE /\ emitted' = <<>>
            /\ initAwait' = [initAwait EXCEPT ![c] = @ \cup {mid}]
  /\ UNCHANGED <<registered, st, chanOpen, transit, parked, gpu, stray, canvas, win>>
  /\ UNCHANGED <<pvars, cvars>>

\* initChart after the await. fail: "none", or what throws: initializeGPUContext
\* ("gpu"), createRenderCoordinator ("coordinator"), the initial render ("render").
InitFinish(c, mid, fail) ==
  /\ mid \in initAwait[c]
  /\ initAwait' = [initAwait EXCEPT ![c] = @ \ {mid}]
  /\ lastEvent' = Event("initDone", c)
  /\ UNCHANGED <<pvars, cvars>>
  /\ IF fail \in {"gpu", "coordinator"}
       THEN /\ emitted' = <<ErrorMsg(c, IF fail = "gpu" THEN "WEBGPU_INIT_FAILED"
                                                       ELSE "UNKNOWN", "init", mid)>>
            /\ calls' = <<>>
            /\ stray' = [stray EXCEPT ![c] = IF fail = "coordinator" THEN "leaked" ELSE @]
            /\ UNCHANGED <<registered, st, chanOpen, transit, parked, gpu, canvas, win>>
       ELSE /\ registered' = [registered EXCEPT ![c] = TRUE]
            /\ st' = [st EXCEPT ![c] = FreshState]
            /\ chanOpen' = [chanOpen EXCEPT ![c] = fail # "render"]
            /\ transit' = [transit EXCEPT ![c] = 0]
            /\ parked' = [parked EXCEPT ![c] = 0]
            /\ gpu' = [gpu EXCEPT ![c] = "ok"]
            /\ stray' = [stray EXCEPT ![c] = IF gpu[c] = "ok" THEN "leaked" ELSE @]
            /\ canvas' = [canvas EXCEPT ![c] = InitialCanvas]
            /\ win' = [win EXCEPT ![c] = FreshWin]
            /\ calls' = <<"render">>
            /\ emitted' = IF fail = "render"
                            THEN <<ReadyMsg(c, mid), ErrorMsg(c, "UNKNOWN", "init", mid)>>
                            ELSE <<ReadyMsg(c, mid)>>

(* ----------------------------- device loss ---------------------------- *)

\* The early device.lost listener of initChart: the reason it reports.
EarlyListenerReason(reason) == IF reason = "destroyed" THEN "destroyed" ELSE "unknown"

\* The coordinator's device.lost listener hands onDeviceLost
\* info.message || info.reason || 'unknown'.
CoordinatorLostArg(reason, hasMessage) == IF hasMessage THEN "message" ELSE reason

\* onDeviceLost: the reason it reports.
OnDeviceLostReason(arg) == IF arg = "destroyed" THEN "destroyed" ELSE "unknown"

\* What the listeners of the registered instance's device emit when device.lost
\* resolves: the early listener of initChart, then the coordinator's listener
\* through onDeviceLost.
LossMessages(c, reason, hasMessage) ==
  << DeviceLostMsg(c, EarlyListenerReason(reason)),
     DeviceLostMsg(c, OnDeviceLostReason(CoordinatorLostArg(reason, hasMessage))) >>

\* state.deviceLost = true on one state object shared by every chart.
MarkLostShared(s, c) == [d \in ChartIds |-> [s[d] EXCEPT !.deviceLost = TRUE]]

\* state.deviceLost = true: `state` is the ChartInstanceState that the initChart
\* call of this instance created and its listeners captured.
MarkLost(s, c) == [s EXCEPT ![c].deviceLost = TRUE]

\* The device of the registered instance of c is lost.
DeviceLoss(c, reason, hasMessage) ==
  /\ gpu[c] = "ok"
  /\ gpu' = [gpu EXCEPT ![c] = "lost"]
  /\ st' = MarkLost(st, c)
  /\ lastEvent' = Event("deviceLoss", c)
  /\ emitted' = LossMessages(c, reason, hasMessage)
  /\ calls' = <<>>
  /\ UNCHANGED <<registered, chanOpen, transit, parked, stray, initAwait, canvas, win>>
  /\ UNCHANGED <<pvars, cvars>>

\* device.lost of a device whose instance is no longer registered resolves (it was
\* destroyed by disposeChart, or outlived a failed init): the early listener runs.
StrayDeviceLoss(c, reason) ==
  /\ stray[c] # "none"
  /\ stray[c] = "destroyed" => reason = "destroyed"
  /\ stray' = [stray EXCEPT ![c] = "none"]
  /\ lastEvent' = Event("strayDeviceLoss", c)
  /\ emitted' = <<DeviceLostMsg(c, EarlyListenerReason(reason))>>
  /\ calls' = <<>>
  /\ UNCHANGED <<registered, st, chanOpen, transit, parked, gpu, initAwait, canvas, win>>
  /\ UNCHANGED <<pvars, cvars>>

(* --------------------------- render delivery -------------------------- *)

\* The render channel delivers one ping: to the render handler if it sits on the
\* receiving port, and otherwise to a port nobody listens on.
ChannelDeliver(c, throws) ==
  /\ transit[c] > 0
  /\ chanOpen[c]
  /\ transit' = [transit EXCEPT ![c] = @ - 1]
  /\ lastEvent' = Event("ping", c)
  /\ IF PingReachesHandler
       THEN /\ st' = [st EXCEPT ![c] = AfterHandler(@)]
            /\ calls' = IF HandlerRenders(st[c]) THEN <<"render">> ELSE <<>>
            /\ emitted' = IF HandlerRenders(st[c]) /\ throws
                            THEN <<ErrorMsg(c, "RENDER_ERROR", "render", NoId)>>
                            ELSE <<>>
            /\ win' = [win EXCEPT ![c] = Ticked(@, HandlerRenders(st[c]))]
            /\ UNCHANGED parked
       ELSE /\ parked' = [parked EXCEPT ![c] = @ + 1]
            /\ calls' = <<>>
            /\ emitted' = <<>>
            /\ UNCHANGED <<st, win>>
  /\ UNCHANGED <<registered, chanOpen, gpu, stray, initAwait, canvas>>
  /\ UNCHANGED <<pvars, cvars>>

(* ------------------------------ the system ---------------------------- *)

Bool == {TRUE, FALSE}
DprNs == {0, 1, 4}
Sizes == {<<0, 4>>, <<1, 1>>, <<4, 3>>}
ZoomRanges == {<<0, 1>>, <<0, 100>>, <<1, 0>>}
Batches == {<<>>, <<ValidXY>>, <<BadSeries>>}
             \cup {<<ValidXY, y>> : y \in BatchItems}
             \cup {<<BadSize, ValidXY>>}
Reasons == {"destroyed", "unknown"}

\* The messageIds of the init messages the worker is sent: two, so that two
\* inits of one chart can be in progress together.
\* setInteractionX messages: x (or null), the source tag (or none), and whether
\* the coordinator invokes onCrosshairMove while applying it.
InteractionInputs ==
  {<<NullX, NoSource, FALSE>>, <<NullX, "sync", TRUE>>,
   <<1, "sync", TRUE>>, <<1, "sync", FALSE>>}

InitIds == {1, 2}

\* The charts the worker is sent messages for.
Active == {"a"}

WNext ==
  \E c \in Active :
    \/ \E mid \in InitIds, dprN \in DprNs : InitStart(c, mid, dprN)
    \/ \E mid \in InitIds, fail \in {"none", "gpu", "coordinator", "render"} :
         InitFinish(c, mid, fail)
    \/ \E throws \in Bool : HandleSetOption(c, throws)
    \/ \E item \in Items, throws \in Bool : HandleAppendData(c, item, throws)
    \/ \E items \in Batches :
         \E throwsAt \in 0..Len(items) : HandleAppendDataBatch(c, items, throwsAt)
    \/ \E size \in Sizes, dprN \in DprNs, rr \in Bool,
          fail \in {"none", "configure", "render"} :
         HandleResize(c, size[1], size[2], dprN, rr, fail)
    \/ \E requests \in Bool, throws \in Bool : HandlePointerEvent(c, requests, throws)
    \/ \E z \in ZoomRanges, requests \in Bool, throws \in Bool :
         HandleSetZoomRange(c, z[1], z[2], requests, throws)
    \/ \E i \in InteractionInputs, requests \in Bool, throws \in Bool :
         HandleSetInteractionX(c, i[1], i[2], i[3], requests, throws)
    \/ \E enabled \in Bool, throws \in Bool : HandleSetAnimation(c, enabled, throws)
    \/ \E f1 \in Bool, f2 \in Bool, f3 \in Bool : DisposeChart(c, f1, f2, f3)
    \/ \E reason \in Reasons, hasMessage \in Bool : DeviceLoss(c, reason, hasMessage)
    \/ \E reason \in Reasons : StrayDeviceLoss(c, reason)
    \/ \E throws \in Bool : ChannelDeliver(c, throws)

(* ------------------------------- proxy -------------------------------- *)

Call(op, result) == [op |-> op, result |-> result]
\* A message the proxy posts: its type and messageId, and the width, height and
\* devicePixelRatio of a resize message (0 in the others).
InMsg(type, mid) ==
  [type |-> type, messageId |-> mid, width |-> 0, height |-> 0, devicePixelRatio |-> 0]

\* Math.max(1, Math.round(size * dpr)) for a CSS size and an integral ratio.
PhysicalSize(size, dpr) == Max(1, size * dpr)

\* The resize message of resize(), of the ResizeObserver's animation frame and
\* of the devicePixelRatio handler: the size in physical pixels, and the ratio.
ResizeMsg(size, dpr) ==
  [InMsg("resize", NoId) EXCEPT !.width = PhysicalSize(size, dpr),
                                !.height = PhysicalSize(size, dpr),
                                !.devicePixelRatio = dpr]

\* canvas.clientWidth / clientHeight (one number for both) when init() runs.
InitialClientSize == 1

\* window.devicePixelRatio when init() runs.
InitialDpr == 1

\* pendingResize = null
NoSize == 0

\* pendingMoveEvent = null
NoMove == 0

\* cachedZoomRange = null, zoomState = null
NoRange == <<>>

\* The range createOverlays gives a new zoom state when cachedZoomRange is null.
FullRange == <<0, 100>>

\* createOverlays: the zoom state afterwards, given whether the options have a
\* dataZoom slider. Without one the field is left as it is.
CreateOverlaysZoomState(zs, hasSliderZoom) ==
  IF hasSliderZoom
    THEN (IF cachedZoomRange = NoRange THEN FullRange ELSE cachedZoomRange)
    ELSE zs

PInit ==
  /\ isDisposed = FALSE
  /\ pendingRequests = {}
  /\ timers = {}
  /\ outcome = [m \in MsgIds |-> "unsent"]
  /\ settleCalls = [m \in MsgIds |-> 0]
  /\ messageIdCounter = 0
  /\ inFlight = {}
  /\ listening = TRUE
  /\ canvasCount = 0
  /\ canvasListeners = FALSE
  /\ overlays = FALSE
  /\ initPosted = FALSE
  /\ lastCall = Call("none", "ok")
  /\ posted = <<>>
  /\ readySeen = FALSE
  /\ monitoring = FALSE
  /\ lastSize = InitialClientSize
  /\ pendingResize = NoSize
  /\ resizeRafId = FALSE
  /\ currentDpr = InitialDpr
  /\ autoResizes = 0
  /\ pendingMoveEvent = NoMove
  /\ moveThrottleRafId = FALSE
  /\ cachedZoomRange = NoRange
  /\ zoomState = NoRange
  /\ sliderOption = FALSE
  /\ cachedInteractionX = NullX



\* sendMessage: TRUE iff it goes on to worker.postMessage, given isDisposed.
SendAllowed(disposedFlag) == ~disposedFlag

\* sendMessageWithResponse without the setTimeout.
TimerNotArmed(ts, m) == ts

\* sendMessageWithResponse: the timers after setTimeout for request m.
TimerArmed(ts, m) == ts \cup {m}

\* A resolve / reject call on request m: the first one settles the promise.
Settled(oc, m, how) == [oc EXCEPT ![m] = IF @ = "pending" THEN how ELSE @]

\* init(): the canvas and its listeners, the overlays, and the correlated init
\* request of sendMessageWithResponse. postFails: worker.postMessage throws.
ProxyInit(postFails) ==
  LET m == messageIdCounter + 1
      sends == SendAllowed(isDisposed)
      failed == sends /\ postFails
  IN  /\ messageIdCounter < MaxMsgId
      /\ messageIdCounter' = m
      /\ canvasCount' = canvasCount + 1
      /\ canvasListeners' = IF isDisposed THEN canvasListeners ELSE TRUE
      /\ overlays' = IF isDisposed THEN overlays ELSE TRUE
      /\ zoomState' = IF isDisposed THEN zoomState
                                    ELSE CreateOverlaysZoomState(zoomState, sliderOption)
      /\ timers' = IF failed THEN timers ELSE TimerArmed(timers, m)
      /\ pendingRequests' = IF failed THEN pendingRequests ELSE pendingRequests \cup {m}
      /\ outcome' = [outcome EXCEPT ![m] = IF failed THEN "COMMUNICATION_ERROR"
                                                     ELSE "pending"]
      /\ settleCalls' = [settleCalls EXCEPT ![m] = IF failed THEN 1 ELSE 0]
      /\ posted' = IF sends /\ ~postFails THEN <<InMsg("init", m)>> ELSE <<>>
      /\ inFlight' = IF sends /\ ~postFails THEN inFlight \cup {m} ELSE inFlight
      /\ initPosted' = (initPosted \/ (sends /\ ~postFails))
      /\ lastCall' = Call("init", IF failed THEN "COMMUNICATION_ERROR" ELSE "pending")
      /\ monitoring' = IF isDisposed THEN monitoring ELSE TRUE
      /\ lastSize' = IF isDisposed THEN lastSize ELSE InitialClientSize
      /\ currentDpr' = IF isDisposed THEN currentDpr ELSE InitialDpr
      /\ UNCHANGED <<isDisposed, listening, readySeen, moveVars, cachedZoomRange,
                     sliderOption, cachedInteractionX, pendingResize, resizeRafId,
                     autoResizes>>
      /\ UNCHANGED <<wvars, cvars>>

\* dispose() without the early return.
DisposeNeverReturnsEarly(disposedFlag) == FALSE

\* dispose(): the early return.
DisposeReturnsEarly(disposedFlag) == disposedFlag

\* dispose(): the value of isDisposed when it calls sendMessage({type: 'dispose'})
\* (the flag is set before the cleanup steps and the send).
DisposedAtSend == TRUE

\* dispose(): how it rejects a pending request.
DisposeRejection == "DISPOSED"

\* dispose() without the clearTimeout.
DisposeKeepsTimers(ts, pending) == ts

\* dispose(): the timers left after clearTimeout on every pending request.
DisposeClearsTimers(ts, pending) == ts \ pending

\* dispose() past the early return.
DisposeEffects ==
  /\ isDisposed' = TRUE
  /\ canvasListeners' = IF canvasCount > 0 THEN FALSE ELSE canvasListeners
  /\ overlays' = FALSE
  /\ posted' = IF SendAllowed(DisposedAtSend) THEN <<InMsg("dispose", NoId)>> ELSE <<>>
  /\ outcome' = [m \in MsgIds |->
                   IF m \in pendingRequests
                     THEN Settled(outcome, m, DisposeRejection)[m]
                     ELSE outcome[m]]
  /\ settleCalls' = [m \in MsgIds |->
                       IF m \in pendingRequests THEN settleCalls[m] + 1
                                                ELSE settleCalls[m]]
  /\ timers' = DisposeClearsTimers(timers, pendingRequests)
  /\ pendingRequests' = {}
  /\ listening' = FALSE
  /\ canvasCount' = IF canvasCount > 0 THEN canvasCount - 1 ELSE 0
  /\ monitoring' = FALSE
  /\ resizeRafId' = FALSE
  /\ pendingResize' = NoSize
  /\ moveThrottleRafId' = IF canvasCount > 0 THEN FALSE ELSE moveThrottleRafId
  /\ pendingMoveEvent' = IF canvasCount > 0 THEN NoMove ELSE pendingMoveEvent
  /\ zoomState' = NoRange
  /\ UNCHANGED <<cachedZoomRange, sliderOption, cachedInteractionX>>
  /\ UNCHANGED <<messageIdCounter, inFlight, initPosted, readySeen, lastSize,
                 currentDpr, autoResizes>>

ProxyUntouched ==
  UNCHANGED <<isDisposed, pendingRequests, timers, outcome, settleCalls,
              messageIdCounter, inFlight, listening, canvasCount, canvasListeners,
              overlays, initPosted, readySeen, moveVars, syncVars, resizeVars>>

\* dispose()
ProxyDispose ==
  /\ lastCall' = Call("dispose", "ok")
  /\ UNCHANGED <<wvars, cvars>>
  /\ IF DisposeReturnsEarly(isDisposed)
       THEN posted' = <<>> /\ ProxyUntouched
       ELSE DisposeEffects

\* appendData(seriesIndex, newPoints): "DISPOSED" / "INVALID_ARGUMENT" /
\* "COMMUNICATION_ERROR" when it throws that code, "noop" for an empty array,
\* "ok" when the message was posted.
AppendDataResult(disposedFlag, seriesIndex, npoints, postFails) ==
  IF disposedFlag THEN "DISPOSED"
  ELSE IF seriesIndex < 0 THEN "INVALID_ARGUMENT"
  ELSE IF npoints = 0 THEN "noop"
  ELSE IF ~SendAllowed(disposedFlag) THEN "noop"
  ELSE IF postFails THEN "COMMUNICATION_ERROR"
  ELSE "ok"

\* appendData()
ProxyAppendData(seriesIndex, npoints, postFails) ==
  LET r == AppendDataResult(isDisposed, seriesIndex, npoints, postFails)
  IN  /\ lastCall' = Call("appendData", r)
      /\ posted' = IF r = "ok" THEN <<InMsg("appendData", NoId)>> ELSE <<>>
      /\ ProxyUntouched
      /\ UNCHANGED <<wvars, cvars>>

\* setOption(). sliderChanged: the presence of a dataZoom slider changed.
ProxySetOption(sliderChanged, postFails) ==
  LET r == IF isDisposed THEN "DISPOSED"
           ELSE IF postFails THEN "COMMUNICATION_ERROR" ELSE "ok"
  IN  /\ lastCall' = Call("setOption", r)
      /\ posted' = IF r = "ok" THEN <<InMsg("setOption", NoId)>> ELSE <<>>
      /\ overlays' = IF ~isDisposed /\ sliderChanged THEN TRUE ELSE overlays
      /\ sliderOption' = IF isDisposed THEN sliderOption ELSE (sliderOption # sliderChanged)
      /\ zoomState' = IF ~isDisposed /\ sliderChanged
                        THEN CreateOverlaysZoomState(NoRange, ~sliderOption)
                        ELSE zoomState
      /\ UNCHANGED <<isDisposed, pendingRequests, timers, outcome, settleCalls,
                     messageIdCounter, inFlight, listening, canvasCount,
                     canvasListeners, initPosted, readySeen, moveVars, cachedZoomRange,
                     cachedInteractionX, resizeVars>>
      /\ UNCHANGED <<wvars, cvars>>

\* resize()
ProxyResize(postFails) ==
  LET r == IF isDisposed \/ canvasCount = 0 THEN "noop"
           ELSE IF postFails THEN "COMMUNICATION_ERROR" ELSE "ok"
  IN  /\ lastCall' = Call("resize", r)
      /\ posted' = IF r = "ok" THEN <<ResizeMsg(lastSize, currentDpr)>> ELSE <<>>
      /\ ProxyUntouched
      /\ UNCHANGED <<wvars, cvars>>

\* The setTimeout callback of sendMessageWithResponse for request m.
TimerFire(m) ==
  /\ m \in timers
  /\ timers' = timers \ {m}
  /\ pendingRequests' = pendingRequests \ {m}
  /\ outcome' = Settled(outcome, m, "TIMEOUT")
  /\ settleCalls' = [settleCalls EXCEPT ![m] = @ + 1]
  /\ lastCall' = Call("timeout", "ok")
  /\ UNCHANGED <<wvars, cvars>>
  /\ posted' = <<>>
  /\ UNCHANGED <<isDisposed, messageIdCounter, inFlight, listening, canvasCount,
                 canvasListeners, overlays, initPosted, readySeen, moveVars, syncVars, resizeVars>>

\* A handler that takes the entry from the map and leaves its timer running.
ClearTimeoutForgotten(ts, m) == ts

\* clearTimeout(pending.timeout) of handleReadyMessage and handleErrorMessage.
ClearTimeout(ts, m) == ts \ {m}

\* handleWorkerMessage -> handleReadyMessage for a `ready` carrying messageId m.
\* last: it is the worker's last answer to m (initChart sends an `error` for
\* the same messageId after `ready` when the initial render fails; the model
\* follows that second answer for a `ready` that finds its request pending).
RecvReady(m, last) ==
  /\ listening
  /\ m \in inFlight
  /\ last \/ m \in pendingRequests
  /\ inFlight' = IF last THEN inFlight \ {m} ELSE inFlight
  /\ lastCall' = Call("ready", "ok")
  /\ UNCHANGED <<wvars, cvars>>
  /\ posted' = <<>>
  /\ IF m \in pendingRequests
       THEN /\ timers' = ClearTimeout(timers, m)
            /\ pendingRequests' = pendingRequests \ {m}
            /\ outcome' = Settled(outcome, m, "resolved")
            /\ settleCalls' = [settleCalls EXCEPT ![m] = @ + 1]
       ELSE UNCHANGED <<timers, pendingRequests, outcome, settleCalls>>
  /\ readySeen' = TRUE
  /\ UNCHANGED <<isDisposed, messageIdCounter, listening, canvasCount,
                 canvasListeners, overlays, initPosted, resizeVars, moveVars, syncVars>>

\* handleWorkerMessage -> handleErrorMessage for an `error` carrying messageId m
\* (NoId: an error without messageId, which is logged).
RecvError(m) ==
  /\ listening
  /\ initPosted
  /\ m = NoId \/ m \in inFlight
  /\ inFlight' = inFlight \ {m}
  /\ lastCall' = Call("error", "ok")
  /\ UNCHANGED <<wvars, cvars>>
  /\ posted' = <<>>
  /\ IF m # NoId /\ m \in pendingRequests
       THEN /\ timers' = ClearTimeout(timers, m)
            /\ pendingRequests' = pendingRequests \ {m}
            /\ outcome' = Settled(outcome, m, "WORKER_ERROR")
            /\ settleCalls' = [settleCalls EXCEPT ![m] = @ + 1]
       ELSE UNCHANGED <<timers, pendingRequests, outcome, settleCalls>>
  /\ UNCHANGED <<isDisposed, messageIdCounter, listening, canvasCount,
                 canvasListeners, overlays, initPosted, readySeen, moveVars, syncVars, resizeVars>>

\* handleWorkerMessage -> handleDeviceLostMessage: it disposes the proxy.
RecvDeviceLost ==
  /\ listening
  /\ initPosted
  /\ lastCall' = Call("deviceLost", "ok")
  /\ UNCHANGED <<wvars, cvars>>
  /\ IF DisposeReturnsEarly(isDisposed)
       THEN posted' = <<>> /\ ProxyUntouched
       ELSE DisposeEffects

\* The message setInteractionX of the proxy posts: x and the caller's source.
SetInteractionXMessage(x, source) == [type |-> "setInteractionX", x |-> x, source |-> source]

\* handleCrosshairMoveMessage: the payload the proxy hands to its crosshairMove
\* listeners, x and source as the worker's message carries them.
HandleCrosshairMoveMessage(message) == [x |-> message.x, source |-> message.source]

\* The pointerdown / pointerup / pointerleave / wheel listeners: TRUE iff the
\* handler goes on to forward the event, given isDisposed and whether a `ready`
\* has arrived.
ForwardAllowed(disposedFlag, ready) == ~disposedFlag

\* A pointerdown / pointerup / pointerleave / wheel event on the canvas.
ProxyPointerEvent ==
  LET sends == ForwardAllowed(isDisposed, readySeen) /\ SendAllowed(isDisposed)
  IN  /\ canvasListeners
      /\ lastCall' = Call("pointer", IF sends THEN "forwarded" ELSE "dropped")
      /\ posted' = IF sends THEN <<InMsg("forwardPointerEvent", NoId)>> ELSE <<>>
      /\ ProxyUntouched
      /\ UNCHANGED <<wvars, cvars>>

\* Resize messages the monitors post within one animation frame (model bound).
MaxAutoResizes == 2

ClientSizes == {1, 2}
Dprs == {1, 2}

\* The ResizeObserver callback, with the canvas client size it measures.
ResizeObserved(newSize) ==
  LET changed == ~isDisposed /\ newSize # lastSize
  IN  /\ monitoring
      /\ lastCall' = Call("resizeObserved", IF changed THEN "scheduled" ELSE "noop")
      /\ posted' = <<>>
      /\ lastSize' = IF changed THEN newSize ELSE lastSize
      /\ pendingResize' = IF changed THEN newSize ELSE pendingResize
      /\ resizeRafId' = IF changed THEN TRUE ELSE resizeRafId
      /\ UNCHANGED <<isDisposed, pendingRequests, timers, outcome, settleCalls,
                     messageIdCounter, inFlight, listening, canvasCount,
                     canvasListeners, overlays, initPosted, readySeen, moveVars, syncVars, monitoring,
                     currentDpr, autoResizes>>
      /\ UNCHANGED <<wvars, cvars>>

\* boundDprChangeHandler, with the window.devicePixelRatio it reads.
DprChanged(newDpr) ==
  LET changed == ~isDisposed /\ newDpr # currentDpr
      sends == changed /\ canvasCount > 0 /\ SendAllowed(isDisposed)
  IN  /\ monitoring
      /\ autoResizes < MaxAutoResizes
      /\ lastCall' = Call("dprChanged", IF sends THEN "sent" ELSE "noop")
      /\ currentDpr' = IF changed THEN newDpr ELSE currentDpr
      /\ posted' = IF sends THEN <<ResizeMsg(lastSize, newDpr)>> ELSE <<>>
      /\ autoResizes' = IF sends THEN autoResizes + 1 ELSE autoResizes
      /\ UNCHANGED <<isDisposed, pendingRequests, timers, outcome, settleCalls,
                     messageIdCounter, inFlight, listening, canvasCount,
                     canvasListeners, overlays, initPosted, readySeen, moveVars, syncVars, monitoring,
                     lastSize, pendingResize, resizeRafId>>
      /\ UNCHANGED <<wvars, cvars>>

\* The start of an animation frame: the requestAnimationFrame callback of the
\* ResizeObserver runs if one is scheduled.
AnimationFrame ==
  LET runs == resizeRafId /\ ~isDisposed /\ pendingResize # NoSize
      sends == runs /\ SendAllowed(isDisposed)
  IN  /\ resizeRafId \/ autoResizes > 0
      /\ lastCall' = Call("frame", IF sends THEN "sent" ELSE "noop")
      /\ resizeRafId' = FALSE
      /\ pendingResize' = IF runs THEN NoSize ELSE pendingResize
      /\ posted' = IF sends THEN <<ResizeMsg(pendingResize, currentDpr)>> ELSE <<>>
      /\ autoResizes' = IF sends THEN 1 ELSE 0
      /\ UNCHANGED <<isDisposed, pendingRequests, timers, outcome, settleCalls,
                     messageIdCounter, inFlight, listening, canvasCount,
                     canvasListeners, overlays, initPosted, readySeen, moveVars, syncVars, monitoring,
                     lastSize, currentDpr>>
      /\ UNCHANGED <<wvars, cvars>>

PNext ==
  \/ \E postFails \in Bool : ProxyInit(postFails)
  \/ ProxyDispose
  \/ \E si \in {-1, 0}, n \in {0, 2}, postFails \in Bool : ProxyAppendData(si, n, postFails)
  \/ \E sliderChanged \in Bool, postFails \in Bool : ProxySetOption(sliderChanged, postFails)
  \/ \E postFails \in Bool : ProxyResize(postFails)
  \/ \E m \in MsgIds : TimerFire(m)
  \/ \E m \in MsgIds, last \in Bool : RecvReady(m, last)
  \/ \E m \in MsgIds \cup {NoId} : RecvError(m)
  \/ RecvDeviceLost
  \/ ProxyPointerEvent
  \/ \E newSize \in ClientSizes : ResizeObserved(newSize)
  \/ \E newDpr \in Dprs : DprChanged(newDpr)
  \/ AnimationFrame

ProxyNext == PNext

(* ------------------------- resize, end to end ------------------------- *)

\* The worker handles the resize message the proxy has just posted for chart c:
\* worker-entry hands event.data to handleMessage, which calls handleResize
\* with the message's width, height and devicePixelRatio.
DeliverResize(c) ==
  /\ posted # <<>>
  /\ posted[1].type = "resize"
  /\ HandleResize(c, posted[1].width, posted[1].height,
                  posted[1].devicePixelRatio * DprDen, TRUE, "none")

ResizeNext ==
  \/ ProxyInit(FALSE)
  \/ \E postFails \in Bool : ProxyResize(postFails)
  \/ \E newSize \in ClientSizes : ResizeObserved(newSize)
  \/ \E newDpr \in Dprs : DprChanged(newDpr)
  \/ AnimationFrame
  \/ InitStart("a", 1, DprDen)
  \/ InitFinish("a", 1, "none")
  \/ DeliverResize("a")

(* --------------------------- RenderScheduler --------------------------- *)

\* rafId = null
NoRaf == 0

\* What a frame did: whether the frame handler ran past its isRunning check,
\* the dirty flag it found, whether it invoked the render callback and the
\* deltaTime it passed; the start() call whose frameHandler and callback these
\* were, and the start() call that had started the running loop.
FrameRecord(ran, wasDirty, rendered, delta, loop, current) ==
  [ran |-> ran, wasDirty |-> wasDirty, rendered |-> rendered, deltaTime |-> delta,
   loop |-> loop, current |-> current]

NoFrame == FrameRecord(FALSE, FALSE, FALSE, 0, 0, 0)

SInit ==
  /\ rafId = NoRaf
  /\ isRunning = FALSE
  /\ lastFrameTime = 0
  /\ dirty = FALSE
  /\ now = 0
  /\ rafCount = 0
  /\ frameCalls = 0
  /\ lastFrame = NoFrame
  /\ pendingFrames = {}
  /\ currentLoop = 0

\* The bridge and the other components, untouched by the scheduler.
BesideScheduler == <<wvars, pvars, ovars, fvars, hvars, evars, dvars, kvars>>

\* cancelAnimationFrame(id): the pending callbacks afterwards.
CancelAnimationFrame(frames, id) == {f \in frames : f[1] # id}

\* start(callback): throws when already running, else marks dirty and requests
\* the first frame.
SchedulerStart ==
  /\ rafCount < MaxRaf
  /\ IF isRunning
       THEN UNCHANGED <<isRunning, lastFrameTime, dirty, rafId, rafCount,
                        pendingFrames, currentLoop>>
       ELSE /\ isRunning' = TRUE
            /\ lastFrameTime' = now
            /\ dirty' = TRUE
            /\ rafCount' = rafCount + 1
            /\ rafId' = rafCount + 1
            /\ currentLoop' = currentLoop + 1
            /\ pendingFrames' = pendingFrames \cup {<<rafCount + 1, currentLoop + 1>>}
  /\ UNCHANGED <<now, frameCalls, lastFrame>>
  /\ UNCHANGED BesideScheduler

\* stop(): clears isRunning and cancels the pending frame.
SchedulerStop ==
  /\ isRunning' = FALSE
  /\ rafId' = NoRaf
  /\ pendingFrames' = CancelAnimationFrame(pendingFrames, rafId)
  /\ UNCHANGED <<lastFrameTime, dirty, now, rafCount, frameCalls, lastFrame, currentLoop>>
  /\ UNCHANGED BesideScheduler

\* requestRender()
RequestRender ==
  /\ dirty' = TRUE
  /\ UNCHANGED <<rafId, isRunning, lastFrameTime, now, rafCount, frameCalls, lastFrame,
                 pendingFrames, currentLoop>>
  /\ UNCHANGED BesideScheduler

\* Whether frameHandler goes on to call the render callback, given the dirty
\* flag it found: the flag is reset when set, and the callback is called.
InvokesCallback(wasDirty) == TRUE

\* The animation frame requests a render callback makes through the scheduler:
\* one when it calls stop() and then start() with a new callback.
CallbackRequests(callbackDoes) == IF callbackDoes = "restart" THEN 1 ELSE 0

\* frameHandler of the pending callback f, run by the browser. The render
\* callback may itself call stop(), requestRender(), or stop() and then start()
\* with a new callback; afterwards frameHandler requests its next frame if
\* isRunning is set.
Frame(f, callbackDoes) ==
  /\ f \in pendingFrames
  /\ rafCount + CallbackRequests(callbackDoes) < MaxRaf
  /\ IF ~isRunning
       THEN /\ lastFrame' = NoFrame
            /\ pendingFrames' = pendingFrames \ {f}
            /\ UNCHANGED <<rafId, isRunning, lastFrameTime, dirty, rafCount, frameCalls,
                           currentLoop>>
       ELSE LET rendered == InvokesCallback(dirty)
                does == IF rendered THEN callbackDoes ELSE "nothing"
                \* the callback's stop(): the frame being run is no longer pending
                restarted == does = "restart"
                started == rafCount + 1
                afterCallback == IF restarted
                                   THEN (pendingFrames \ {f})
                                          \cup {<<started, currentLoop + 1>>}
                                   ELSE pendingFrames \ {f}
                requests == IF restarted THEN started ELSE rafCount
                running == does # "stop"
            IN  /\ lastFrame' = FrameRecord(TRUE, dirty, rendered, now - lastFrameTime,
                                            f[2], currentLoop)
                /\ lastFrameTime' = now
                /\ dirty' = (does \in {"requestRender", "restart"})
                /\ frameCalls' = IF rendered THEN frameCalls + 1 ELSE frameCalls
                /\ isRunning' = running
                /\ currentLoop' = IF restarted THEN currentLoop + 1 ELSE currentLoop
                /\ rafCount' = IF running THEN requests + 1 ELSE requests
                /\ rafId' = IF running THEN requests + 1 ELSE NoRaf
                /\ pendingFrames' = IF running
                                      THEN afterCallback \cup {<<requests + 1, f[2]>>}
                                      ELSE afterCallback
  /\ UNCHANGED now
  /\ UNCHANGED BesideScheduler

\* performance.now() advances.
TimePasses ==
  /\ now < MaxTime
  /\ now' = now + 1
  /\ UNCHANGED <<rafId, isRunning, lastFrameTime, dirty, rafCount, frameCalls, lastFrame,
                 pendingFrames, currentLoop>>
  /\ UNCHANGED BesideScheduler

CallbackBehaviours == {"nothing", "stop", "requestRender", "restart"}

SchedulerNext ==
  \/ SchedulerStart
  \/ SchedulerStop
  \/ RequestRender
  \/ \E id \in 1..MaxRaf, loop \in 1..MaxRaf, d \in CallbackBehaviours :
       Frame(<<id, loop>>, d)
  \/ TimePasses

(* ---------------------------- resolveOptions --------------------------- *)

\* An optional property: <<>> when undefined, <<v>> when v.
Absent == <<>>
Some(v) == <<v>>

\* A data point in object form: x, y and the columns a facet may name
\* ("-" for a column the point does not have).
Point(x, y, region, zone) == [x |-> x, y |-> y, region |-> region, zone |-> zone]

\* A user series: its type, its optional color, areaStyle.opacity and its data.
UserSeries(type, color, areaOpacity, data) ==
  [type |-> type, color |-> color, areaStyle |-> areaOpacity, data |-> data]

\* FacetConfig: fx and fy, each optional.
Facet(fx, fy) == [fx |-> fx, fy |-> fy]

\* ChartGPUOptions: the optional facet and palette, and the series.
UserOptions(facet, palette, series) ==
  [facet |-> facet, palette |-> palette, series |-> series]

\* String.prototype.trim on the strings of the model.
Trim(str) ==
  CASE str = " red " -> "red"
    [] str = "  " -> ""
    [] OTHER -> str

\* normalizeOptionalColor
NormalizeOptionalColor(color) ==
  IF color = Absent THEN Absent
  ELSE IF Trim(color[1]) = "" THEN Absent ELSE Some(Trim(color[1]))

RECURSIVE SanitizePalette(_)
\* sanitizePalette: trimmed, non-empty entries
SanitizePalette(palette) ==
  IF palette = <<>> THEN <<>>
  ELSE LET t == Trim(Head(palette))
       IN  IF t = "" THEN SanitizePalette(Tail(palette))
           ELSE <<t>> \o SanitizePalette(Tail(palette))

\* theme.colorPalette of the default (dark) theme.
ThemePalette == <<"#00E5FF", "#FF2D95">>

\* defaultAreaStyle.opacity, defaultLineStyle.width and .opacity (tenths).
DefaultAreaOpacity == 2
DefaultLineWidth == 20
DefaultLineOpacity == 10

\* The series mapping of resolveOptions for the series at index i (from 0).
ResolveSeries(s, i, paletteForIndexing) ==
  LET explicitColor == NormalizeOptionalColor(s.color)
      inheritedColor == paletteForIndexing[(i % Len(paletteForIndexing)) + 1]
      color == IF explicitColor # Absent THEN explicitColor[1] ELSE inheritedColor
      opacity == IF s.areaStyle # Absent THEN s.areaStyle[1] ELSE DefaultAreaOpacity
  IN  IF s.type = "area"
        THEN [type |-> s.type, data |-> s.data, color |-> color,
              lineStyle |-> Absent, areaStyle |-> Some(opacity)]
        ELSE [type |-> s.type, data |-> s.data, color |-> color,
              lineStyle |-> Some(<<DefaultLineWidth, DefaultLineOpacity>>),
              areaStyle |-> IF s.areaStyle # Absent THEN Some(opacity) ELSE Absent]

\* resolveOptions: the object it returns has grid, xAxis, yAxis, theme, palette
\* and series, and no other property.
ResolveOptions(options) ==
  LET paletteCandidate ==
        IF options.palette = Absent THEN <<>> ELSE SanitizePalette(options.palette[1])
      palette == IF Len(paletteCandidate) > 0 THEN paletteCandidate
                 ELSE SanitizePalette(ThemePalette)
      safePalette == IF Len(palette) > 0 THEN palette ELSE ThemePalette
  IN  [grid |-> "defaults", xAxis |-> "defaults", yAxis |-> "defaults",
       theme |-> "dark", palette |-> safePalette,
       series |-> [i \in 1..Len(options.series) |->
                     ResolveSeries(options.series[i], i - 1, safePalette)]]

Norte == Point(0, 10, "Norte", "-")
Sur == Point(1, 25, "Sur", "Z1")

SeriesSamples ==
  {UserSeries("bar", Absent, Absent, <<Norte, Sur>>),
   UserSeries("line", Some(" red "), Absent, <<Sur>>),
   UserSeries("line", Some("  "), Some(5), <<Norte>>),
   UserSeries("area", Absent, Absent, <<Norte, Sur, Norte>>),
   UserSeries("area", Some("blue"), Some(5), <<>>)}

RECURSIVE SeriesLists(_)
\* The series arrays of at most n sample series.
SeriesLists(n) ==
  IF n = 0 THEN {<<>>}
  ELSE SeriesLists(n - 1)
         \cup {Append(l, x) : l \in {k \in SeriesLists(n - 1) : Len(k) = n - 1},
                               x \in SeriesSamples}

Facets ==
  {Absent} \cup {Some(Facet(fx, fy)) : fx \in {Absent, Some("region")},
                                       fy \in {Absent, Some("zone")}}

Palettes == {Absent, Some(<<"  ", " red ">>)}

\* resolveOptions not called: the default argument {} and no result.
OIdle ==
  /\ userOptions = UserOptions(Absent, Absent, <<>>)
  /\ resolved = Absent

OInit ==
  /\ userOptions \in {UserOptions(f, p, l) :
                         f \in Facets, p \in Palettes, l \in SeriesLists(MaxSeries)}
  /\ resolved = Absent

\* resolveOptions(userOptions)
Resolve ==
  /\ resolved = Absent
  /\ resolved' = Some(ResolveOptions(userOptions))
  /\ UNCHANGED userOptions
  /\ UNCHANGED <<wvars, pvars, svars, fvars, hvars, evars, dvars, kvars>>

OptionsNext == Resolve

(* -------------------------- createChartInWorker ------------------------ *)

Calls == 1..MaxCalls

\* The Worker instance the caller constructs and passes to the factory; the
\* worker a call i creates itself is worker i.
SuppliedWorker == 0

\* worker = null
NoWorker == -1

Workers == {SuppliedWorker} \cup Calls

\* One call of createChartInWorker.
FactoryCall(phase, input, worker, workerCreated, disposed) ==
  [phase |-> phase, input |-> input, worker |-> worker,
   workerCreated |-> workerCreated, proxyDisposed |-> disposed]

NotCalled == FactoryCall("notCalled", "-", NoWorker, FALSE, FALSE)

FInit ==
  /\ factory = [i \in Calls |-> NotCalled]
  /\ terminated = [w \in Workers |-> FALSE]

\* The catch of createChartInWorker: the worker is terminated only if this
\* call created it.
CatchTerminates(call) == call.worker # NoWorker /\ call.workerCreated

\* ChartGPUWorkerProxy.dispose() as far as the Worker is concerned: TRUE iff it
\* calls worker.terminate(). It removes its message listener and nothing more.
ProxyDisposeTerminates(call) == FALSE

\* createChartInWorker up to `await proxy.init()`: the container check, the
\* choice of the worker by the type of workerOrUrl, and the proxy.
CreateChartInWorker(i, input, constructorThrows) ==
  /\ factory[i].phase = "notCalled"
  /\ factory' = [factory EXCEPT ![i] =
       CASE input = "invalidContainer" ->
              FactoryCall("threw", input, NoWorker, FALSE, FALSE)
         [] input = "instance" ->
              FactoryCall("awaitingInit", input, SuppliedWorker, FALSE, FALSE)
         [] OTHER ->
              IF constructorThrows
                THEN FactoryCall("threw", input, NoWorker, FALSE, FALSE)
                ELSE FactoryCall("awaitingInit", input, i, TRUE, FALSE)]
  /\ UNCHANGED terminated
  /\ UNCHANGED <<wvars, pvars, svars, ovars, hvars, evars, dvars, kvars>>

\* createChartInWorker after `await proxy.init()`: it returns the proxy, or
\* disposes the proxy and rethrows through the outer catch.
InitSettled(i, initOk) ==
  /\ factory[i].phase = "awaitingInit"
  /\ IF initOk
       THEN /\ factory' = [factory EXCEPT ![i].phase = "returned"]
            /\ UNCHANGED terminated
       ELSE /\ factory' = [factory EXCEPT ![i].phase = "threw",
                                           ![i].proxyDisposed = TRUE]
            /\ terminated' =
                 IF ProxyDisposeTerminates(factory[i]) \/ CatchTerminates(factory[i])
                   THEN [terminated EXCEPT ![factory[i].worker] = TRUE]
                   ELSE terminated
  /\ UNCHANGED <<wvars, pvars, svars, ovars, hvars, evars, dvars, kvars>>

\* dispose() of the chart a call returned.
DisposeReturnedChart(i) ==
  /\ factory[i].phase = "returned"
  /\ factory' = [factory EXCEPT ![i].proxyDisposed = TRUE]
  /\ terminated' =
       IF ~factory[i].proxyDisposed /\ ProxyDisposeTerminates(factory[i])
         THEN [terminated EXCEPT ![factory[i].worker] = TRUE]
         ELSE terminated
  /\ UNCHANGED <<wvars, pvars, svars, ovars, hvars, evars, dvars, kvars>>

WorkerInputs == {"invalidContainer", "instance", "url", "builtin"}

FactoryNext ==
  \E i \in Calls :
    \/ \E input \in WorkerInputs, constructorThrows \in Bool :
         CreateChartInWorker(i, input, constructorThrows)
    \/ \E initOk \in Bool : InitSettled(i, initOk)
    \/ DisposeReturnedChart(i)

(* --------------------------- heatmap renderer -------------------------- *)

InstanceStrideBytes == 32
InstanceStrideFloats == InstanceStrideBytes \div 4

\* A GPUBuffer: which createBuffer call made it, its size and whether destroy()
\* has been called on it.
Buffer(id, size, destroyed) == [id |-> id, size |-> size, destroyed |-> destroyed]

\* instanceBuffer = null
NoBuffer == Buffer(0, 0, FALSE)

RECURSIVE NextPow2From(_, _)
NextPow2From(p, v) == IF p >= v THEN p ELSE NextPow2From(2 * p, v)

\* nextPow2
NextPow2(v) == NextPow2From(1, v)

\* ensureCpuInstanceCapacityFloats: the staging length afterwards.
EnsureCpuInstanceCapacityFloats(len, requiredFloats) ==
  IF requiredFloats <= len THEN len ELSE Max(8, NextPow2(requiredFloats))

\* prepare: bufferSize = Math.max(4, requiredSize)
BufferSize(requiredSize) == Max(4, requiredSize)

\* A renderer that creates its buffer once and never again.
NeedsNewBufferOnlyOnce(buf, bufferSize) == buf = NoBuffer

\* prepare: !instanceBuffer || instanceBuffer.size < bufferSize
NeedsNewBuffer(buf, bufferSize) == buf = NoBuffer \/ buf.size < bufferSize

\* What a prepare() did: "threw", "empty" (no series, or no finite cell) or
\* "written", with the bytes it required.
Prepared(how, requiredSize) == [how |-> how, requiredSize |-> requiredSize]

HInit ==
  /\ instanceBuffer = NoBuffer
  /\ instanceCount = 0
  /\ heatmapDisposed = FALSE
  /\ stagingFloats = 0
  /\ buffersCreated = 0
  /\ written = 0
  /\ lastPrepare = Prepared("none", 0)

\* prepare(seriesConfigs, ...): hasSeries is seriesConfigs.length > 0, finite
\* the number of data points whose x, y and value are finite, skipped the
\* number of the others.
Prepare(hasSeries, finite, skipped) ==
  LET outFloats == finite * InstanceStrideFloats
      requiredSize == outFloats * 4
      bufferSize == BufferSize(requiredSize)
      replaces == NeedsNewBuffer(instanceBuffer, bufferSize)
  IN  /\ hasSeries \/ (finite = 0 /\ skipped = 0)
      /\ IF heatmapDisposed
           THEN /\ lastPrepare' = Prepared("threw", 0)
                /\ UNCHANGED <<instanceBuffer, instanceCount, stagingFloats,
                               buffersCreated, written>>
           ELSE IF ~hasSeries
           THEN /\ lastPrepare' = Prepared("empty", 0)
                /\ instanceCount' = 0
                /\ UNCHANGED <<instanceBuffer, stagingFloats, buffersCreated, written>>
           ELSE /\ stagingFloats' = EnsureCpuInstanceCapacityFloats(
                                       stagingFloats,
                                       (finite + skipped) * InstanceStrideFloats)
                /\ instanceCount' = outFloats \div InstanceStrideFloats
                /\ IF finite = 0
                     THEN /\ lastPrepare' = Prepared("empty", 0)
                          /\ UNCHANGED <<instanceBuffer, buffersCreated, written>>
                     ELSE /\ lastPrepare' = Prepared("written", requiredSize)
                          /\ instanceBuffer' =
                               IF replaces
                                 THEN Buffer(buffersCreated + 1, bufferSize, FALSE)
                                 ELSE instanceBuffer
                          /\ buffersCreated' =
                               IF replaces THEN buffersCreated + 1 ELSE buffersCreated
                          /\ written' = IF replaces THEN requiredSize
                                        ELSE Max(written, requiredSize)
      /\ UNCHANGED heatmapDisposed
      /\ UNCHANGED <<wvars, pvars, svars, ovars, fvars, evars, dvars, kvars>>

\* dispose()
HeatmapDispose ==
  /\ heatmapDisposed' = TRUE
  /\ instanceBuffer' =
       IF ~heatmapDisposed /\ instanceBuffer # NoBuffer
         THEN [instanceBuffer EXCEPT !.destroyed = TRUE]
         ELSE instanceBuffer
  /\ lastPrepare' = Prepared("none", 0)
  /\ UNCHANGED <<instanceCount, stagingFloats, buffersCreated, written>>
  /\ UNCHANGED <<wvars, pvars, svars, ovars, fvars, evars, dvars, kvars>>

HeatmapNext ==
  \/ \E hasSeries \in Bool, finite \in 0..MaxCells, skipped \in 0..1 :
       Prepare(hasSeries, finite, skipped)
  \/ HeatmapDispose

(* ------------------- pointer events, with throttling ------------------ *)

\* The event types of the canvas listeners of setupEventListeners.
PointerKinds == {"pointerdown", "pointermove", "pointerup", "pointerleave", "wheel"}

EInit ==
  /\ occurred = <<>>
  /\ forwarded = <<>>

\* A pointermove handler that keeps the first event of the frame.
StoredMoveKeepsFirst(pending, n) == IF pending = NoMove THEN n ELSE pending

\* this.pendingMoveEvent = e, for event number n.
StoredMove(pending, n) == n

\* The pointermove listener, for event number n: stores the event and requests
\* an animation frame unless one is requested already.
PointerMoveHandler(n) ==
  /\ lastCall' = Call("pointermove", IF isDisposed THEN "dropped" ELSE "stored")
  /\ posted' = <<>>
  /\ pendingMoveEvent' = IF isDisposed THEN pendingMoveEvent
                                       ELSE StoredMove(pendingMoveEvent, n)
  /\ moveThrottleRafId' = IF isDisposed THEN moveThrottleRafId ELSE TRUE
  /\ UNCHANGED forwarded

\* The pointerdown / pointerup / pointerleave / wheel listener, for event
\* number n: forwards the event at once.
PointerForwardHandler(n) ==
  LET sends == ForwardAllowed(isDisposed, readySeen) /\ SendAllowed(isDisposed)
  IN  /\ lastCall' = Call("pointer", IF sends THEN "forwarded" ELSE "dropped")
      /\ posted' = IF sends THEN <<InMsg("forwardPointerEvent", NoId)>> ELSE <<>>
      /\ forwarded' = IF sends THEN Append(forwarded, n) ELSE forwarded
      /\ UNCHANGED moveVars

\* A pointer event of the given kind occurs on the canvas and its listener runs.
CanvasPointerEvent(kind) ==
  LET n == Len(occurred) + 1
  IN  /\ canvasListeners
      /\ Len(occurred) < MaxEvents
      /\ occurred' = Append(occurred, kind)
      /\ IF kind = "pointermove" THEN PointerMoveHandler(n) ELSE PointerForwardHandler(n)
      /\ UNCHANGED <<isDisposed, pendingRequests, timers, outcome, settleCalls,
                     messageIdCounter, inFlight, listening, canvasCount,
                     canvasListeners, overlays, initPosted, readySeen, resizeVars, syncVars>>
      /\ UNCHANGED <<wvars, svars, ovars, fvars, hvars, dvars, kvars>>

\* The requestAnimationFrame callback of the pointermove listener runs.
MoveFrame ==
  LET sends == ~isDisposed /\ pendingMoveEvent # NoMove /\ SendAllowed(isDisposed)
  IN  /\ moveThrottleRafId
      /\ moveThrottleRafId' = FALSE
      /\ lastCall' = Call("moveFrame", IF sends THEN "forwarded" ELSE "noop")
      /\ pendingMoveEvent' = IF sends THEN NoMove ELSE pendingMoveEvent
      /\ posted' = IF sends THEN <<InMsg("forwardPointerEvent", NoId)>> ELSE <<>>
      /\ forwarded' = IF sends THEN Append(forwarded, pendingMoveEvent) ELSE forwarded
      /\ UNCHANGED <<isDisposed, pendingRequests, timers, outcome, settleCalls,
                     messageIdCounter, inFlight, listening, canvasCount,
                     canvasListeners, overlays, initPosted, readySeen, resizeVars, syncVars>>
      /\ UNCHANGED occurred
      /\ UNCHANGED <<wvars, svars, ovars, fvars, hvars, dvars, kvars>>

PointerNext ==
  \/ ProxyInit(FALSE)
  \/ ProxyDispose
  \/ \E kind \in PointerKinds : CanvasPointerEvent(kind)
  \/ MoveFrame

(* ------------------------- zoom, end to end --------------------------- *)

\* setZoomRange of the proxy: the range check in percent space.
PercentRangeValid(start, end) ==
  /\ ~(start < 0 \/ start > 100 \/ end < 0 \/ end > 100)
  /\ ~(start >= end)

\* The message setZoomRange of the proxy posts.
SetZoomRangeMessage(start, end) == [type |-> "setZoomRange", start |-> start, end |-> end]

\* setZoomRange(start, end) of the proxy: "noop" when disposed, else the code it
\* throws, else "ok".
SetZoomRangeResult(start, end, postFails) ==
  IF isDisposed THEN "noop"
  ELSE IF ~PercentRangeValid(start, end) THEN "INVALID_ARGUMENT"
  ELSE IF ~SendAllowed(isDisposed) THEN "noop"
  ELSE IF postFails THEN "COMMUNICATION_ERROR"
  ELSE "ok"

\* setZoomRange(start, end) of the proxy
ProxySetZoomRange(start, end, postFails) ==
  LET r == SetZoomRangeResult(start, end, postFails)
  IN  /\ lastCall' = Call("setZoomRange", r)
      /\ cachedZoomRange' = IF r \in {"ok", "COMMUNICATION_ERROR"} THEN <<start, end>>
                                                                  ELSE cachedZoomRange
      /\ posted' = IF r = "ok" THEN <<SetZoomRangeMessage(start, end)>> ELSE <<>>
      /\ UNCHANGED <<isDisposed, pendingRequests, timers, outcome, settleCalls,
                     messageIdCounter, inFlight, listening, canvasCount,
                     canvasListeners, overlays, initPosted, readySeen, resizeVars,
                     moveVars, zoomState, sliderOption, cachedInteractionX>>
      /\ UNCHANGED <<wvars, cvars>>

\* ZoomState.setRange(start, end): the range afterwards, clamped to [0, 100].
SetRange(start, end) == <<Max(0, Min(100, start)), Max(0, Min(100, end))>>

\* ZoomState calls its onChange listeners when setRange changed the range.
OnChangeFires(before, after) == before # after

\* handleWorkerMessage -> handleZoomChangeMessage for a `zoomChange` carrying
\* start and end; with a slider whose range differs it calls zoomState.setRange,
\* whose onChange listener (createOverlays) calls this.setZoomRange.
RecvZoomChange(start, end) ==
  LET setsRange == zoomState # NoRange /\ zoomState # <<start, end>>
      after == SetRange(start, end)
      fires == setsRange /\ OnChangeFires(zoomState, after) /\ ~isDisposed
      r == SetZoomRangeResult(after[1], after[2], FALSE)
  IN  /\ listening
      /\ initPosted
      /\ lastCall' = Call("zoomChange", IF fires /\ r = "ok" THEN "echoed" ELSE "ok")
      /\ zoomState' = IF setsRange THEN after ELSE zoomState
      /\ cachedZoomRange' = IF fires /\ r = "ok" THEN after ELSE <<start, end>>
      /\ posted' = IF fires /\ r = "ok" THEN <<SetZoomRangeMessage(after[1], after[2])>>
                                        ELSE <<>>
      /\ UNCHANGED <<isDisposed, pendingRequests, timers, outcome, settleCalls,
                     messageIdCounter, inFlight, listening, canvasCount,
                     canvasListeners, overlays, initPosted, readySeen, resizeVars,
                     moveVars, sliderOption, cachedInteractionX>>
      /\ UNCHANGED <<wvars, cvars>>

\* The worker handles the setZoomRange message the proxy has just posted for
\* chart c: handleMessage calls handleSetZoomRange with its start and end.
DeliverZoom(c) ==
  /\ posted # <<>>
  /\ posted[1].type = "setZoomRange"
  /\ HandleSetZoomRange(c, posted[1].start, posted[1].end, TRUE, FALSE)

PercentRanges == {<<0, 1>>, <<0, 100>>, <<50, 20>>, <<0, 101>>}
ZoomChanges == {<<0, 1>>, <<0, 100>>}

ZoomNext ==
  \/ ProxyInit(FALSE)
  \/ \E sliderChanged \in Bool : ProxySetOption(sliderChanged, FALSE)
  \/ \E z \in PercentRanges, postFails \in Bool : ProxySetZoomRange(z[1], z[2], postFails)
  \/ \E z \in ZoomChanges : RecvZoomChange(z[1], z[2])
  \/ ProxyDispose
  \/ InitStart("a", 1, DprDen)
  \/ InitFinish("a", 1, "none")
  \/ DeliverZoom("a")

(* --------------------- interaction x, end to end ---------------------- *)

\* getInteractionX()
GetInteractionX == IF isDisposed THEN NullX ELSE cachedInteractionX

\* setInteractionX(x, source) of the proxy
ProxySetInteractionX(x, source, postFails) ==
  LET r == IF isDisposed \/ ~SendAllowed(isDisposed) THEN "noop"
           ELSE IF postFails THEN "COMMUNICATION_ERROR" ELSE "ok"
  IN  /\ lastCall' = Call("setInteractionX", r)
      /\ cachedInteractionX' = IF isDisposed THEN cachedInteractionX ELSE x
      /\ posted' = IF r = "ok" THEN <<SetInteractionXMessage(x, source)>> ELSE <<>>
      /\ UNCHANGED <<isDisposed, pendingRequests, timers, outcome, settleCalls,
                     messageIdCounter, inFlight, listening, canvasCount,
                     canvasListeners, overlays, initPosted, readySeen, resizeVars,
                     moveVars, cachedZoomRange, zoomState, sliderOption>>
      /\ UNCHANGED <<wvars, cvars>>

\* handleWorkerMessage -> handleCrosshairMoveMessage for the i-th message the
\* worker has just emitted, a `crosshairMove`.
RecvCrosshairMove(i) ==
  /\ listening
  /\ initPosted
  /\ i \in DOMAIN emitted
  /\ emitted[i].type = "crosshairMove"
  /\ lastCall' = Call("crosshairMove", "ok")
  /\ cachedInteractionX' = HandleCrosshairMoveMessage(emitted[i]).x
  /\ posted' = posted
  /\ UNCHANGED <<isDisposed, pendingRequests, timers, outcome, settleCalls,
                 messageIdCounter, inFlight, listening, canvasCount,
                 canvasListeners, overlays, initPosted, readySeen, resizeVars,
                 moveVars, cachedZoomRange, zoomState, sliderOption>>
  /\ UNCHANGED <<wvars, cvars>>

\* The worker handles the setInteractionX message the proxy has just posted for
\* chart c; fires: the coordinator invokes onCrosshairMove with the new x.
DeliverInteractionX(c, fires) ==
  /\ posted # <<>>
  /\ posted[1].type = "setInteractionX"
  /\ HandleSetInteractionX(c, posted[1].x, posted[1].source, fires, TRUE, FALSE)

CrosshairNext ==
  \/ ProxyInit(FALSE)
  \/ \E x \in {NullX, 1, 2}, postFails \in Bool : ProxySetInteractionX(x, "sync", postFails)
  \/ \E i \in 1..2 : RecvCrosshairMove(i)
  \/ ProxyDispose
  \/ InitStart("a", 1, DprDen)
  \/ InitFinish("a", 1, "none")
  \/ \E fires \in Bool : DeliverInteractionX("a", fires)

(* --------------------------- serialization ---------------------------- *)

\* An ArrayBuffer with the float64 values a Float64Array view of it holds.
ArrayBuffer(byteLength, floats) == [byteLength |-> byteLength, floats |-> floats]

\* serializeDataPoints(points) for tuple points: <<buffer, stride>>. The point
\* type is detected from the first element.
SerializeDataPoints(pts) ==
  IF Len(pts) = 0 THEN <<ArrayBuffer(0, <<>>), 0>>
  ELSE LET isOHLC == Len(pts[1]) = 5
           stride == IF isOHLC THEN 40 ELSE 16
           width == IF isOHLC THEN 5 ELSE 2
           floats == [k \in 1..((Len(pts) * stride) \div 8) |->
                        pts[((k - 1) \div width) + 1][((k - 1) % width) + 1]]
       IN  <<ArrayBuffer(Len(pts) * stride, floats), stride>>

\* What a call did: returned a value, or threw.
Returned(value) == [status |-> "returned", value |-> value]
Thrown(why) == [status |-> "threw", value |-> why]

\* deserializeDataPoints reading every point from offset 0.
DeserializeFirstOnly(buffer, pointCount, stride) ==
  IF buffer.byteLength # pointCount * stride THEN Thrown("size mismatch")
  ELSE IF stride = 16
    THEN Returned([i \in 1..pointCount |-> <<buffer.floats[1], buffer.floats[2]>>])
  ELSE IF stride = 40
    THEN Returned([i \in 1..pointCount |-> [j \in 1..5 |-> buffer.floats[j]]])
  ELSE Thrown("invalid stride")

\* deserializeDataPoints(buffer, pointCount, stride): the points, or why it throws.
DeserializeDataPoints(buffer, pointCount, stride) ==
  IF buffer.byteLength # pointCount * stride THEN Thrown("size mismatch")
  ELSE IF stride = 16
    THEN Returned([i \in 1..pointCount |->
                     <<buffer.floats[2 * (i - 1) + 1], buffer.floats[2 * (i - 1) + 2]>>])
  ELSE IF stride = 40
    THEN Returned([i \in 1..pointCount |->
                     [j \in 1..5 |-> buffer.floats[5 * (i - 1) + j]]])
  ELSE Thrown("invalid stride")

NotDecoded == [status |-> "none", value |-> <<>>]

\* Sample points: [x, y] tuples, one [x, y, size] tuple, OHLC tuples.
XYSamples == {<<0, 1>>, <<1, 0>>, <<2, 2>>}
XYSizeSamples == {<<1, 2, 3>>}
OHLCSamples == {<<1, 2, 3, 4, 5>>, <<5, 4, 3, 2, 1>>, <<0, 0, 0, 0, 0>>}

\* The arrays of 1..n elements of a set.
RECURSIVE ArraysOf(_, _)
ArraysOf(samples, n) ==
  IF n = 0 THEN {}
  ELSE LET shorter == ArraysOf(samples, n - 1)
       IN  {<<p>> : p \in samples} \cup shorter
             \cup {Append(a, p) : a \in {b \in shorter : Len(b) = n - 1}, p \in samples}

DInit ==
  /\ points \in ArraysOf(XYSamples \cup XYSizeSamples, MaxPoints)
                \cup ArraysOf(OHLCSamples, MaxPoints)
  /\ decoded = NotDecoded

DIdle ==
  /\ points = <<>>
  /\ decoded = NotDecoded

\* The points go through serializeDataPoints in the proxy and through
\* deserializeDataPoints, with the stride returned and the original length, in
\* the worker.
RoundTrip ==
  LET serialized == SerializeDataPoints(points)
  IN  /\ decoded = NotDecoded
      /\ decoded' = DeserializeDataPoints(serialized[1], Len(points), serialized[2])
      /\ UNCHANGED points
      /\ UNCHANGED <<wvars, pvars, svars, ovars, fvars, hvars, evars, kvars>>

SerializationNext == RoundTrip

(* --------------------------- category scale --------------------------- *)

\* The number 1 of the range: positions are held as whole multiples of 1/48,
\* so that the division by a category count up to 4 and the half step of
\* scale() are exact.
Unit == 48

\* new Map(): no category has an index.
EmptyIndex == [c \in {} |-> 0]

KInit ==
  /\ categories = <<>>
  /\ indexByCategory = EmptyIndex
  /\ scaleRange = <<0, Unit>>
  /\ domainResult = "ok"

\* rebuildIndex throws: some category occurs twice.
HasDuplicates(list) ==
  \E i \in DOMAIN list : \E j \in DOMAIN list : i < j /\ list[i] = list[j]

\* The Map rebuildIndex builds for a list without duplicates: category -> index.
IndexOf(list) ==
  [c \in {list[i] : i \in DOMAIN list} |->
     (CHOOSE i \in DOMAIN list : list[i] = c) - 1]

\* domain(nextCategories): copies the list into `categories`, then rebuildIndex
\* builds the new index and throws at the first duplicate, before it assigns
\* indexByCategory.
Domain(nextCategories) ==
  /\ categories' = nextCategories
  /\ IF HasDuplicates(nextCategories)
       THEN domainResult' = "threw" /\ UNCHANGED indexByCategory
       ELSE domainResult' = "ok" /\ indexByCategory' = IndexOf(nextCategories)
  /\ UNCHANGED scaleRange
  /\ UNCHANGED <<wvars, pvars, svars, ovars, fvars, hvars, evars, dvars>>

\* range(min, max) with finite arguments
ScaleRange(min, max) ==
  /\ scaleRange' = <<min, max>>
  /\ domainResult' = "ok"
  /\ UNCHANGED <<categories, indexByCategory>>
  /\ UNCHANGED <<wvars, pvars, svars, ovars, fvars, hvars, evars, dvars>>

\* categoryIndex(category)
CategoryIndex(category) ==
  IF category \in DOMAIN indexByCategory THEN indexByCategory[category] ELSE -1

Abs(v) == IF v < 0 THEN 0 - v ELSE v

\* bandwidth()
Bandwidth ==
  LET n == Len(categories)
  IN  IF n = 0 THEN 0 ELSE Abs((scaleRange[2] - scaleRange[1]) \div n)

\* scale(category): Some(position), or Absent for NaN.
Scale(category) ==
  LET n == Len(categories)
      i == CategoryIndex(category)
      step == (scaleRange[2] - scaleRange[1]) \div n
  IN  IF n = 0 THEN Some((scaleRange[1] + scaleRange[2]) \div 2)
      ELSE IF i < 0 THEN Absent
      ELSE Some(scaleRange[1] + ((2 * i + 1) * step) \div 2)

Labels == {"x", "y"}

\* The lists of at most n labels.
RECURSIVE ListsOf(_, _)
ListsOf(labels, n) ==
  IF n = 0 THEN {<<>>}
  ELSE LET shorter == ListsOf(labels, n - 1)
       IN  shorter \cup {Append(a, l) : a \in {b \in shorter : Len(b) = n - 1}, l \in labels}

Ranges == {<<0, Unit>>, <<Unit, 0>>, <<Unit, 2 * Unit>>}

CategoryNext ==
  \/ \E list \in ListsOf(Labels, MaxCategories) : Domain(list)
  \/ \E r \in Ranges : ScaleRange(r[1], r[2])

Init == WInit /\ PInit /\ SInit /\ OIdle /\ FInit /\ HInit /\ EInit /\ DIdle /\ KInit

PointerSpec == Init /\ [][PointerNext]_vars

ZoomSpec == Init /\ [][ZoomNext]_vars

SerializationInit ==
  WInit /\ PInit /\ SInit /\ OIdle /\ FInit /\ HInit /\ EInit /\ DInit /\ KInit

SerializationSpec == SerializationInit /\ [][SerializationNext]_vars

CategorySpec == Init /\ [][CategoryNext]_vars

\* Messages between the threads are delivered: the worker handles what the proxy
\* posted and the proxy handles what the worker emitted.
CrosshairSpec ==
  /\ Init /\ [][CrosshairNext]_vars
  /\ \A i \in 1..2 : WF_vars(RecvCrosshairMove(i))
  /\ \A fires \in Bool : WF_vars(DeliverInteractionX("a", fires))

HeatmapSpec == Init /\ [][HeatmapNext]_vars

FactorySpec == Init /\ [][FactoryNext]_vars

ResizeSpec == Init /\ [][ResizeNext]_vars

OptionsInit == WInit /\ PInit /\ SInit /\ OInit /\ FInit /\ HInit /\ EInit /\ DIdle /\ KInit

OptionsSpec == OptionsInit /\ [][OptionsNext]_vars


SchedulerSpec == Init /\ [][SchedulerNext]_vars

ProxySpec == Init /\ [][ProxyNext]_vars

\* The calls and events of the proxy that touch the pending-request map.
RequestNext ==
  \/ \E postFails \in Bool : ProxyInit(postFails)
  \/ ProxyDispose
  \/ \E m \in MsgIds : TimerFire(m)
  \/ \E m \in MsgIds, last \in Bool : RecvReady(m, last)
  \/ \E m \in MsgIds \cup {NoId} : RecvError(m)
  \/ RecvDeviceLost

\* Timers fire: a timeout that stays armed runs its callback.
FairProxySpec ==
  Init /\ [][RequestNext]_vars /\ \A m \in MsgIds : WF_vars(TimerFire(m))

Next == WNext

\* Two charts in one worker, each sent one sample of every message.
MultiChartNext ==
  \E c \in ChartIds :
    \/ InitStart(c, 1, DprDen)
    \/ InitFinish(c, 1, "none")
    \/ HandleSetOption(c, FALSE)
    \/ HandleAppendData(c, ValidXY, FALSE)
    \/ HandleAppendDataBatch(c, <<ValidXY, BadSize>>, 0)
    \/ HandleResize(c, 4, 3, DprDen, TRUE, "none")
    \/ HandlePointerEvent(c, TRUE, FALSE)
    \/ HandleSetZoomRange(c, 0, 1, TRUE, FALSE)
    \/ HandleSetInteractionX(c, 1, "sync", TRUE, TRUE, FALSE)
    \/ HandleSetAnimation(c, TRUE, FALSE)
    \/ DisposeChart(c, FALSE, FALSE, FALSE)
    \/ DeviceLoss(c, "unknown", TRUE)
    \/ ChannelDeliver(c, FALSE)

MultiChartSpec == Init /\ [][MultiChartNext]_vars

Spec == Init /\ [][Next]_vars

(* ------------------------------- claims ------------------------------- *)

Range(seq) == {seq[i] : i \in 1..Len(seq)}
IsError(m) == m.type = "error"
IsDeviceLostMsg(m) == m.type = "deviceLost"

\* A chart that is registered, has its device and an open render channel.
Live(c) == registered[c] /\ ~st[c].disposed /\ ~st[c].deviceLost /\ chanOpen[c]

\* C1 (stated as claimed): once the render channel of a live chart has nothing left
\* to deliver, the setOption / appendData / appendDataBatch / resize messages
\* handled since the last render tick have caused exactly one coordinator.render().
C1_ExactlyOneRenderPerWindow ==
  \A c \in ChartIds :
    (Live(c) /\ transit[c] = 0 /\ win[c].msgs >= 1) => win[c].renders = 1

\* C2 (stated as claimed): whenever the render channel delivers the ping of a chart
\* that is neither disposed nor device-lost, the render handler runs: it resets
\* renderPending and invokes coordinator.render().
C2_PingReachesRenderHandler ==
  [][\A c \in ChartIds :
       (lastEvent' = Event("ping", c) /\ ~st[c].disposed /\ ~st[c].deviceLost)
         => (~st'[c].renderPending /\ calls' = <<"render">>)]_vars

\* C3 (stated as claimed): the first dispose() of a proxy whose init reached the
\* worker posts exactly one `dispose` message to the worker.
C3_DisposeReachesWorker ==
  [][(~isDisposed /\ isDisposed' /\ initPosted)
       => posted' = <<InMsg("dispose", NoId)>>]_vars

\* C4: on a disposed proxy, dispose() returns without throwing, posts nothing and
\* changes nothing, and appendData() throws DISPOSED and posts nothing.
C4_DisposeIdempotent ==
  [][isDisposed =>
       /\ lastCall'.op = "dispose"
            => (lastCall'.result = "ok" /\ posted' = <<>> /\ ProxyUntouched)
       /\ lastCall'.op = "appendData"
            => (lastCall'.result = "DISPOSED" /\ posted' = <<>> /\ ProxyUntouched)]_vars

\* C4 witness: dispose() was called on a disposed proxy that holds a pending request
\* (made by an init() after the first dispose) and left that request alone.
C4_Witness ==
  isDisposed /\ lastCall = Call("dispose", "ok") /\ pendingRequests # {}

\* C5: the dispose() that disposes the proxy rejects every pending request with
\* DISPOSED, clears its timer, and leaves the pending-request map empty.
C5_DisposeCancelsPending ==
  [][(~isDisposed /\ isDisposed') =>
       /\ pendingRequests' = {}
       /\ \A m \in pendingRequests :
            outcome'[m] = "DISPOSED" /\ m \notin timers']_vars

\* C5 witness: a disposed proxy, both of whose requests were rejected with DISPOSED.
C5_Witness ==
  isDisposed /\ \E m \in MsgIds, n \in MsgIds :
                  m # n /\ outcome[m] = "DISPOSED" /\ outcome[n] = "DISPOSED"

\* C6: a timer that fires rejects its request with TIMEOUT and removes the map
\* entry, and every pending request eventually settles and leaves the map.
C6_RequestsSettle ==
  /\ [][\A m \in MsgIds :
          (lastCall' = Call("timeout", "ok") /\ m \in timers /\ m \notin timers'
             /\ outcome[m] = "pending")
            => (outcome'[m] = "TIMEOUT" /\ m \notin pendingRequests')]_vars
  /\ \A m \in MsgIds :
       (outcome[m] = "pending") ~> (outcome[m] # "pending" /\ m \notin pendingRequests)

\* C6 witness: a request that neither ready, error nor dispose settled timed out.
C6_Witness ==
  \E m \in MsgIds : outcome[m] = "TIMEOUT" /\ m \notin pendingRequests /\ ~isDisposed

InboundKinds ==
  {"init", "setOption", "appendData", "appendDataBatch", "resize",
   "forwardPointerEvent", "setZoomRange", "setInteractionX", "setAnimation", "dispose"}

\* The step handled a message of one of `kinds` for chart c, whose device was lost,
\* and rejected it: one error message, no coordinator call, the canvas untouched.
LostRejects(c, kinds) ==
  (registered[c] /\ st[c].deviceLost /\ lastEvent'.chartId = c
     /\ lastEvent'.kind \in kinds)
    => /\ Len(emitted') = 1 /\ IsError(emitted'[1]) /\ emitted'[1].chartId = c
       /\ calls' = <<>>
       /\ canvas'[c] = canvas[c]

C8_OneDeviceLostPerLoss ==
  lastEvent.kind = "deviceLoss" => Len(SelectSeq(emitted, IsDeviceLostMsg)) = 1

\* C9 (stated as claimed): the error that answers an appendData / setOption /
\* resize for a device-lost chart carries the code DEVICE_LOST.
C9_PostLossErrorsSayDeviceLost ==
  [][\A c \in ChartIds :
       (registered[c] /\ st[c].deviceLost /\ lastEvent'.chartId = c
          /\ lastEvent'.kind \in {"appendData", "setOption", "resize"})
         => \A i \in 1..Len(emitted') :
              IsError(emitted'[i]) => emitted'[i].code = "DEVICE_LOST"]_vars

\* C10: a step that handles anything for an instance that is disposed or
\* device-lost never invokes coordinator.render() (the continuation of an init
\* makes a new instance and is not a step on the old one).
C10_NoFrameAfterDisposeOrLoss ==
  [][\A c \in ChartIds :
       ((st[c].disposed \/ st[c].deviceLost) /\ lastEvent'.chartId = c
          /\ lastEvent'.kind # "initDone")
         => "render" \notin Range(calls')]_vars

\* C10 witness: a setAnimation that would render was handled for a device-lost
\* chart, and rendered nothing.
C10_Witness ==
  \E c \in ChartIds :
    /\ registered[c] /\ st[c].deviceLost
    /\ lastEvent = Event("setAnimation", c)
    /\ calls = <<>>
    /\ emitted = <<ErrorMsg(c, "UNKNOWN", "setAnimation", NoId)>>

\* A render is scheduled: renderPending is set and its ping is in flight.
Scheduled(c) == st[c].renderPending /\ transit[c] > 0

\* C11 (stated as claimed): for every registered chart whose render channel is
\* open, a render is scheduled iff onRequestRender was called since the last render
\* tick and the chart is neither disposed nor device-lost.
C11_ScheduledIffRequested ==
  \A c \in ChartIds :
    (registered[c] /\ chanOpen[c]) =>
      (Scheduled(c) <=> (win[c].requested /\ ~st[c].disposed /\ ~st[c].deviceLost))

\* Messages a host sends after `init`.
AfterInitKinds ==
  {"setOption", "appendData", "appendDataBatch", "resize", "forwardPointerEvent",
   "dispose"}

\* C12 (stated as claimed): a message for a chart whose init has arrived and is
\* still awaiting the GPU is not answered with an error (it is not handled
\* before that init has finished).
C12_HandledAfterInit ==
  [][\A c \in ChartIds :
       (initAwait[c] # {} /\ ~registered[c] /\ lastEvent'.chartId = c
          /\ lastEvent'.kind \in AfterInitKinds)
         => \A i \in 1..Len(emitted') : ~IsError(emitted'[i])]_vars

\* C13 (stated as claimed): a pointer or wheel event that occurs before the first
\* `ready` has arrived posts nothing to the worker.
C13_NoForwardBeforeReady ==
  (lastCall.op = "pointer" /\ ~readySeen) => posted = <<>>

\* C14 (stated as claimed): within one animation frame the size and
\* device-pixel-ratio monitors post at most one resize message.
C14_OneResizePerFrame == autoResizes <= 1

\* A data item is invalid: its seriesIndex or pointCount is negative, its buffer
\* is not pointCount x stride bytes long, or its stride is not a point stride.
InvalidItem(item) ==
  \/ item.seriesIndex < 0
  \/ item.pointCount < 0
  \/ item.byteLength # item.pointCount * item.stride
  \/ item.stride \notin {16, 40}

\* C15 (stated as claimed): an appendDataBatch with an invalid item emits an error
\* and calls coordinator.appendData for no item of the batch.
C15_BatchIsTransactional ==
  [][(lastEvent'.kind = "appendDataBatch"
        /\ \E i \in 1..Len(lastEvent'.input) : InvalidItem(lastEvent'.input[i]))
       => (/\ \E i \in 1..Len(emitted') : IsError(emitted'[i])
           /\ "appendData" \notin Range(calls'))]_vars

\* C16: an invalid appendData emits exactly one DATA_ERROR error, never calls
\* coordinator.appendData, and leaves the chart's state as it was.
C16_InvalidAppendRejected ==
  [][\A c \in ChartIds :
       (lastEvent'.kind = "appendData" /\ lastEvent'.chartId = c
          /\ InvalidItem(lastEvent'.input[1]))
         => /\ emitted' = <<ErrorMsg(c, "DATA_ERROR", "appendData", NoId)>>
            /\ calls' = <<>>
            /\ UNCHANGED <<registered, st, chanOpen, transit, parked, gpu, canvas, win>>]_vars

\* C16 witness: a live chart rejected an appendData whose buffer holds fewer
\* bytes than pointCount x stride.
C16_Witness ==
  \E c \in ChartIds :
    /\ Live(c)
    /\ lastEvent.kind = "appendData" /\ lastEvent.chartId = c
    /\ lastEvent.input = <<BadSize>>
    /\ emitted = <<ErrorMsg(c, "DATA_ERROR", "appendData", NoId)>>
    /\ calls = <<>>

IsTrue(b) == b = TRUE

\* C17: the dispose of a registered, not yet disposed chart always runs through:
\* the coordinator is disposed, the GPU context is given up, the chart leaves the
\* registry, and the one message emitted is `disposed`, whose cleanupErrors has
\* one entry per cleanup step that threw.
C17_DisposeIsBestEffort ==
  [][\A c \in ChartIds :
       (registered[c] /\ ~st[c].disposed /\ lastEvent'.kind = "dispose"
          /\ lastEvent'.chartId = c)
         => /\ ~registered'[c]
            /\ st'[c].disposed
            /\ calls' = <<"dispose">>
            /\ gpu'[c] = "none"
            /\ emitted' = <<DisposedMsg(c, Len(SelectSeq(lastEvent'.input, IsTrue)))>>]_vars

\* C17 witness: a chart was disposed although all three cleanup steps threw.
C17_Witness ==
  \E c \in ChartIds :
    /\ lastEvent.kind = "dispose" /\ lastEvent.chartId = c
    /\ lastEvent.input = <<TRUE, TRUE, TRUE>>
    /\ ~registered[c]
    /\ emitted = <<DisposedMsg(c, 3)>>

\* The operation an error names for an event kind (the continuation of an init
\* reports as `init`).
OperationOf(kind) == IF kind = "initDone" THEN "init" ELSE kind

\* The step handles a message for c that cannot succeed: the chart is unknown or
\* device-lost, an init names a registered chart, a data item is invalid, or
\* coordinator.setOptions throws.
HandlingFails(c) ==
  LET k == lastEvent'.kind
  IN  \/ k \in InboundKinds \ {"init"} /\ ~registered[c]
      \/ k \in InboundKinds \ {"init", "dispose"} /\ registered[c] /\ st[c].deviceLost
      \/ k = "init" /\ registered[c]
      \/ k \in {"appendData", "appendDataBatch"}
           /\ \E i \in 1..Len(lastEvent'.input) : InvalidItem(lastEvent'.input[i])
      \/ k = "setOption" /\ lastEvent'.input = <<TRUE>>

IsZoomChange(m) == m.type = "zoomChange"

\* C20 (stated as claimed): when a setZoomRange message is handed to the
\* coordinator of a live chart without an error and the coordinator asks for a
\* render (as it does when the zoom range changes), the worker emits a single
\* `zoomChange` message.
C20_ZoomChangeEmitted ==
  [][\A c \in ChartIds :
       (Live(c) /\ lastEvent' = Event("setZoomRange", c)
          /\ calls' = <<"setZoomRange">>
          /\ SelectSeq(emitted', IsError) = <<>>
          /\ transit'[c] > transit[c])
         => Len(SelectSeq(emitted', IsZoomChange)) = 1]_vars

IsCrosshairMove(m) == m.type = "crosshairMove"

\* C21 (stated as claimed): when a setInteractionX carrying a source tag is
\* applied to a worker-hosted chart, every crosshairMove the proxy hands to its
\* listeners for it carries that same source tag, so that the listener that
\* made the update can recognise and skip it.
C21_SourceSurvivesRoundTrip ==
  \A i \in 1..Len(emitted) :
    (lastEvent.kind = "setInteractionX" /\ IsCrosshairMove(emitted[i]))
      => HandleCrosshairMoveMessage(emitted[i]).source
           = SetInteractionXMessage(lastEvent.input[1], lastEvent.input[2]).source

\* C22 (stated as claimed): while the loop is running, a frame whose dirty flag
\* is not set does not invoke the render callback.
C22_RendersOnlyWhenDirty ==
  (lastFrame.ran /\ lastFrame.rendered) => lastFrame.wasDirty

\* C23 (stated as claimed): for options with facet.fx and/or facet.fy, the
\* resolved options have a facet with the same fx and fy, and every series keeps
\* its data points, facet properties included.
C23_FacetKept ==
  (resolved # Absent /\ userOptions.facet # Absent
     /\ (userOptions.facet[1].fx # Absent \/ userOptions.facet[1].fy # Absent))
    => /\ "facet" \in DOMAIN resolved[1]
       /\ resolved[1].facet[1].fx = userOptions.facet[1].fx
       /\ resolved[1].facet[1].fy = userOptions.facet[1].fy
       /\ Len(resolved[1].series) = Len(userOptions.series)
       /\ \A i \in 1..Len(userOptions.series) :
            resolved[1].series[i].data = userOptions.series[i].data

\* C24 (stated as claimed): once a chart returned by createChartInWorker has
\* been disposed, its worker has been terminated if and only if the factory
\* created that worker.
C24_TerminatedIffCreated ==
  \A i \in Calls :
    (factory[i].phase = "returned" /\ factory[i].proxyDisposed)
      => (terminated[factory[i].worker] <=> factory[i].workerCreated)

\* C25 (stated as claimed): when the worker applies a resize message the proxy
\* posted for a canvas of CSS size w x h at device-pixel ratio d, the surface
\* becomes w*d x h*d device pixels, clamped to [1, maxTextureDimension2D].
C25_DprAppliedOnce ==
  [][(posted # <<>> /\ lastEvent' = Event("resize", "a") /\ emitted' = <<>>)
       => canvas'["a"] = <<FinalDim(lastSize * currentDpr),
                           FinalDim(lastSize * currentDpr)>>]_vars

\* C26: across prepare() calls of a heatmap renderer, an existing instance
\* buffer is at least as large as the bytes written to it and its size is a
\* multiple of 4; a prepare() replaces (and destroys) the buffer only when the
\* size it requires exceeds the buffer's, and keeps it otherwise.
C26_InstanceBufferCapacity ==
  [][lastPrepare'.how = "written"
       => /\ instanceBuffer' # NoBuffer
          /\ instanceBuffer'.size >= written'
          /\ written' >= lastPrepare'.requiredSize
          /\ instanceBuffer'.size % 4 = 0
          /\ instanceBuffer # NoBuffer
               => (instanceBuffer' # instanceBuffer
                     <=> lastPrepare'.requiredSize > instanceBuffer.size)]_vars

\* C26 witness: the renderer is on its second buffer, and the last prepare()
\* wrote fewer bytes than the buffer holds, keeping it.
C26_Witness ==
  /\ instanceBuffer.id = 2
  /\ ~instanceBuffer.destroyed
  /\ lastPrepare.how = "written"
  /\ lastPrepare.requiredSize < instanceBuffer.size
  /\ written = instanceBuffer.size

IsInitAnswer(m) == m.type \in {"ready", "error"} /\ m.messageId # NoId

\* C27 (stated as claimed): an init message is answered by exactly one `ready`
\* or `error` carrying its messageId: a step of initChart emits at most one
\* such message, and the step that completes the init emits exactly one, also
\* when the initial coordinator.render() fails after `ready` was emitted.
C27_OneAnswerPerInit ==
  /\ lastEvent.kind \in {"init", "initDone"}
       => Len(SelectSeq(emitted, IsInitAnswer)) <= 1
  /\ lastEvent.kind = "initDone"
       => Len(SelectSeq(emitted, IsInitAnswer)) = 1

\* C28 (stated as claimed): a failed init leaves no trace. When initChart
\* emits an `error` for the init of a chart that was not registered, the chart
\* is not registered afterwards; and a registered chart that is not disposed
\* never has a closed render channel.
C28_FailedInitLeavesNoTrace ==
  [][\A c \in ChartIds :
       /\ (lastEvent'.kind \in {"init", "initDone"} /\ lastEvent'.chartId = c
             /\ SelectSeq(emitted', IsError) # <<>> /\ ~registered[c])
            => ~registered'[c]
       /\ (registered'[c] /\ ~st'[c].disposed) => chanOpen'[c]]_vars

\* C29 (stated as claimed): an init for a chart that is already registered, or
\* whose earlier init is still awaiting GPU initialization, is refused: it
\* emits one error carrying its own messageId, starts no second GPU
\* initialization, and leaves the existing instance as it is.
C29_OneInstancePerChart ==
  [][\A c \in ChartIds :
       (lastEvent' = Event("init", c) /\ (registered[c] \/ initAwait[c] # {}))
         => /\ Len(emitted') = 1
            /\ IsError(emitted'[1])
            /\ emitted'[1].messageId \in InitIds \ initAwait[c]
            /\ initAwait'[c] = initAwait[c]
            /\ registered'[c] = registered[c]
            /\ st'[c] = st[c]
            /\ gpu'[c] = gpu[c]
            /\ chanOpen'[c] = chanOpen[c]]_vars

IsSettled(o) == o \notin {"unsent", "pending"}

\* C30: every correlated request of the proxy is settled exactly once. Its
\* resolve / reject is called at most once; it is pending exactly while its map
\* entry exists, and then its timer is armed; once it is settled its entry and
\* timer are gone and no later `ready`, `error`, timer or dispose changes its
\* outcome or calls resolve / reject again; and the event that settles it
\* decides the outcome: `ready` resolves, `error`, the timeout and dispose reject.
C30_SettledExactlyOnce ==
  [][\A m \in MsgIds :
       /\ settleCalls'[m] <= 1
       /\ (outcome'[m] = "pending") <=> (m \in pendingRequests')
       /\ (outcome'[m] = "pending") => (m \in timers')
       /\ IsSettled(outcome'[m]) => (m \notin timers' /\ settleCalls'[m] = 1)
       /\ IsSettled(outcome[m])
            => (outcome'[m] = outcome[m] /\ settleCalls'[m] = settleCalls[m])
       /\ (outcome[m] = "pending" /\ IsSettled(outcome'[m]))
            => outcome'[m] =
                 CASE lastCall'.op = "ready" -> "resolved"
                   [] lastCall'.op = "error" -> "WORKER_ERROR"
                   [] lastCall'.op = "timeout" -> "TIMEOUT"
                   [] OTHER -> "DISPOSED"]_vars

\* C30 witness: the only request sent timed out, and the `ready` that answers
\* it has arrived afterwards.
C30_Witness ==
  /\ messageIdCounter = 1
  /\ outcome[1] = "TIMEOUT"
  /\ settleCalls[1] = 1
  /\ lastCall = Call("ready", "ok")
  /\ 1 \notin inFlight

\* C31: a dispose message for a chart that is not in the registry (never
\* initialised, or already disposed) is answered with exactly one error message
\* and no `disposed` message, and repeats no cleanup step: the coordinator is not
\* called, and the registry, the state flags, the render channel and the GPU
\* devices stay as they are.
C31_DoubleDisposeRefused ==
  [][\A c \in ChartIds :
       ((~registered[c] \/ st[c].disposed) /\ lastEvent'.kind = "dispose"
          /\ lastEvent'.chartId = c)
         => /\ emitted' = <<ErrorMsg(c, "UNKNOWN", "dispose", NoId)>>
            /\ calls' = <<>>
            /\ UNCHANGED <<registered, st, chanOpen, transit, parked, gpu, stray>>]_vars

\* C31 witness: chart "a" was disposed (its state says so, its device was
\* destroyed) and a second dispose for it has just been answered with an error.
C31_Witness ==
  /\ lastEvent.kind = "dispose" /\ lastEvent.chartId = "a"
  /\ st["a"].disposed /\ ~registered["a"] /\ stray["a"] = "destroyed"
  /\ emitted = <<ErrorMsg("a", "UNKNOWN", "dispose", NoId)>>
  /\ calls = <<>>

\* The step was not the handling of an inbound message: a device.lost promise
\* resolved, or the render channel delivered a ping.
Unprompted(kind) == kind \in {"deviceLoss", "strayDeviceLoss", "ping"}

\* C32: `disposed` is the last outbound message of a chart: once a chart has been
\* disposed and no init for its chartId is under way, no step the worker takes
\* on its own for that chartId emits a message, in particular no `deviceLost`
\* for the device that disposal destroyed.
C32_DisposedIsLast ==
  \A c \in ChartIds :
    (/\ lastEvent.chartId = c /\ Unprompted(lastEvent.kind)
     /\ st[c].disposed /\ ~registered[c] /\ initAwait[c] = {})
      => emitted = <<>>

\* C33: pointer events reach the worker in the order in which they occurred on
\* the canvas: when a pointermove is forwarded, every event forwarded before it
\* occurred before it.
C33_PointerOrderKept ==
  \A i \in DOMAIN forwarded : \A j \in DOMAIN forwarded :
    (i < j /\ occurred[forwarded[j]] = "pointermove") => forwarded[i] < forwarded[j]

\* The number of the most recent pointermove in a list of events (0: none).
RECURSIVE LatestMove(_)
LatestMove(events) ==
  IF events = <<>> THEN 0
  ELSE IF events[Len(events)] = "pointermove" THEN Len(events)
  ELSE LatestMove(SubSeq(events, 1, Len(events) - 1))

\* C34: pointermove events are throttled to one message per animation frame: the
\* pointermove listener itself posts nothing; the frame callback posts at most one
\* message, which carries the most recent pointermove that occurred and is
\* forwarded for the first time; and nothing is posted for a pointermove once
\* the proxy is disposed.
C34_MoveThrottled ==
  [][/\ lastCall'.op = "pointermove" => (posted' = <<>> /\ forwarded' = forwarded)
     /\ lastCall'.op = "moveFrame"
           => /\ Len(posted') <= 1
              /\ isDisposed => (posted' = <<>> /\ forwarded' = forwarded)
              /\ posted' # <<>>
                    => /\ forwarded' = Append(forwarded, LatestMove(occurred))
                       /\ \A i \in DOMAIN forwarded :
                            forwarded[i] # LatestMove(occurred)
     /\ (isDisposed' /\ forwarded' # forwarded)
           => occurred[forwarded'[Len(forwarded')]] # "pointermove"]_vars

\* C34 witness: three pointermove events occurred before the frame callback ran,
\* and the one message forwarded carries the third.
C34_Witness ==
  /\ occurred = <<"pointermove", "pointermove", "pointermove">>
  /\ lastCall = Call("moveFrame", "forwarded")
  /\ Len(posted) = 1
  /\ forwarded = <<3>>

\* C35: zoom units agree across the bridge: when the worker handles a
\* setZoomRange message that the proxy accepted and posted for a live chart, it
\* emits no error and hands the range to coordinator.setZoomRange, so the range
\* the proxy caches is the range the worker applied.
C35_ZoomUnitsAgree ==
  [][(/\ lastEvent'.kind = "setZoomRange" /\ lastEvent'.chartId = "a"
      /\ GetChartInstance("a") = "ok"
      /\ posted # <<>> /\ posted[1].type = "setZoomRange"
      /\ cachedZoomRange = <<posted[1].start, posted[1].end>>)
       => (emitted' = <<>> /\ calls' = <<"setZoomRange">>)]_vars

\* C36: a `zoomChange` from the worker updates the proxy's cached range and the
\* slider's zoom state and makes the proxy post nothing to the worker.
C36_ZoomChangeNotEchoed ==
  [][lastCall'.op = "zoomChange" => posted' = <<>>]_vars

\* The worker has applied the setInteractionX(null) that the proxy posted last
\* to chart c: the worker's crosshair is cleared and no setInteractionX is on its
\* way to the worker.
CrosshairCleared(c) ==
  /\ Live(c)
  /\ lastEvent.kind = "setInteractionX" /\ lastEvent.chartId = c
  /\ lastEvent.input[1] = NullX
  /\ calls = <<"setInteractionX">>
  /\ posted = <<SetInteractionXMessage(NullX, lastEvent.input[2])>>

\* C37: the proxy's cached interaction x follows the worker: once the worker's
\* crosshair has been cleared, getInteractionX() of the proxy eventually returns
\* null (unless the crosshair is set again first).
C37_CacheFollowsClear ==
  CrosshairCleared("a") ~> (GetInteractionX = NullX \/ ~CrosshairCleared("a"))

\* C38: the scheduler runs at most one frame loop: a frame that invokes a render
\* callback invokes the callback of the start() call that started the running
\* loop, never the callback of a start() call that a stop() has ended.
C38_OneFrameLoop ==
  (lastFrame.ran /\ lastFrame.rendered) => lastFrame.loop = lastFrame.current

\* The array holds [x, y] tuples only, or 5-element OHLC tuples only.
IsXYArray(pts) == \A i \in DOMAIN pts : Len(pts[i]) = 2
IsOHLCArray(pts) == \A i \in DOMAIN pts : Len(pts[i]) = 5

\* C39: serialization round trip: for a non-empty array of [x, y] points or of
\* 5-element OHLC tuples, the serialized buffer has length x stride bytes, and
\* deserializeDataPoints with the returned stride and the original length
\* returns as many points with the same components in the same order.
C39_RoundTrip ==
  (Len(points) > 0 /\ (IsXYArray(points) \/ IsOHLCArray(points)))
    => /\ SerializeDataPoints(points)[1].byteLength
            = Len(points) * SerializeDataPoints(points)[2]
       /\ SerializeDataPoints(points)[2] = (IF IsOHLCArray(points) THEN 40 ELSE 16)
       /\ decoded # NotDecoded => decoded = Returned(points)

\* C39 witness: three different OHLC tuples have gone through the round trip.
C39_Witness ==
  /\ points = <<<<1, 2, 3, 4, 5>>, <<5, 4, 3, 2, 1>>, <<0, 0, 0, 0, 0>>>>
  /\ decoded = Returned(points)

\* C40: a rejected category domain leaves the scale unchanged: when domain()
\* throws for a list with duplicates, categories, the index, bandwidth() and
\* scale() of every category are as before the call.
C40_RejectedDomainChangesNothing ==
  [][domainResult' = "threw"
       => /\ categories' = categories
          /\ indexByCategory' = indexByCategory
          /\ Bandwidth' = Bandwidth
          /\ \A c \in Labels : Scale(c)' = Scale(c)]_vars

====
